---- MODULE Spec2Model ----
(***************************************************************************)
(* A model of the watchlist reconciliation code of skg17/canvas:           *)
(*   src/app/sync.py            sync_jellyfin_status, run_periodic_sync    *)
(*   src/app/jellyfin_client.py JellyfinClient                             *)
(*   src/app/main.py            lifespan, the request handlers             *)
(*   src/app/auth.py            get_current_user, verify_token             *)
(*   src/app/models.py          WatchlistItem                              *)
(*                                                                         *)
(* JSON payloads of the media server are dynamic (Python dicts), so every  *)
(* JSON value is a tagged record: the tag says which Python type the value *)
(* has, and the operators below do what the Python operations do on it     *)
(* (including raising on a value of the wrong type).                       *)
(* Text is a sequence of one-character strings, so that lower(), strip(),  *)
(* "in" and int() are computed rather than assumed.                        *)
(***************************************************************************)
EXTENDS Integers, Sequences, FiniteSets, TLC

----------------------------------------------------------------------------
(* JSON values and Python results *)

Absent == [t |-> "absent"]
JNull == [t |-> "null"]
JB(b) == [t |-> "bool", b |-> b]
JI(n) == [t |-> "int", n |-> n]
JS(s) == [t |-> "str", s |-> s]
JO(m) == [t |-> "obj", m |-> m]
EmptyMap == [k \in {} |-> Absent]
None == JNull

Raise == [t |-> "raise"]
IsRaise(r) == r.t = "raise"

\* dict.get(key, default): the value under key, or the default when the key
\* is missing (a key that is present with null yields None, not the default)
Get(o, key, default) == IF key \in DOMAIN o.m THEN o.m[key] ELSE default

\* Python truthiness of a JSON value
Truthy(v) ==
    CASE v.t = "absent" -> FALSE
      [] v.t = "null" -> FALSE
      [] v.t = "bool" -> v.b
      [] v.t = "int" -> v.n # 0
      [] v.t = "str" -> Len(v.s) > 0
      [] v.t = "obj" -> DOMAIN v.m # {}

----------------------------------------------------------------------------
(* Text *)

LowerMap == [c \in {"A", "B", "M", "S"} |->
    CASE c = "A" -> "a" [] c = "B" -> "b" [] c = "M" -> "m" [] c = "S" -> "s"]
LowerChar(c) == IF c \in DOMAIN LowerMap THEN LowerMap[c] ELSE c
\* str.lower()
Lower(s) == [k \in 1..Len(s) |-> LowerChar(s[k])]

RECURSIVE LStrip(_)
LStrip(s) == IF Len(s) > 0 /\ Head(s) = " " THEN LStrip(Tail(s)) ELSE s
RECURSIVE RStrip(_)
RStrip(s) == IF Len(s) > 0 /\ s[Len(s)] = " " THEN RStrip(SubSeq(s, 1, Len(s) - 1)) ELSE s
\* str.strip()
Strip(s) == RStrip(LStrip(s))

\* a in b, for two strings
IsSubstring(a, b) ==
    \E off \in 0..(Len(b) - Len(a)) : SubSeq(b, off + 1, off + Len(a)) = a

DigitVal == [c \in {"0", "1", "2", "3", "4", "5", "6", "7", "8", "9"} |->
    CASE c = "0" -> 0 [] c = "1" -> 1 [] c = "2" -> 2 [] c = "3" -> 3 [] c = "4" -> 4
      [] c = "5" -> 5 [] c = "6" -> 6 [] c = "7" -> 7 [] c = "8" -> 8 [] c = "9" -> 9]
DigitChar(d) == CHOOSE c \in DOMAIN DigitVal : DigitVal[c] = d

\* str(n) for an integer n >= 0
RECURSIVE IntToStr(_)
IntToStr(n) == IF n < 10 THEN <<DigitChar(n)>>
               ELSE Append(IntToStr(n \div 10), DigitChar(n % 10))

RECURSIVE DigitsValue(_)
DigitsValue(s) == IF Len(s) = 0 THEN 0
                  ELSE 10 * DigitsValue(SubSeq(s, 1, Len(s) - 1)) + DigitVal[s[Len(s)]]

\* int(s) for a string: surrounding whitespace is ignored, leading zeros are
\* accepted, anything else that is not a run of digits raises ValueError
StrToInt(s) ==
    LET d == Strip(s)
    IN IF Len(d) > 0 /\ \A k \in 1..Len(d) : d[k] \in DOMAIN DigitVal
       THEN JI(DigitsValue(d))
       ELSE Raise

\* str(v) of a provider id read from JSON
PyStr(v) == IF v.t = "int" THEN IntToStr(v.n) ELSE v.s
\* int(v) of a provider id read from JSON
PyInt(v) == IF v.t = "int" THEN v ELSE StrToInt(v.s)

----------------------------------------------------------------------------
(* JellyfinClient.find_item_by_tmdb_id *)

ProviderKeys == <<"Tmdb", "TheMovieDb", "tmdb", "TMDB">>

\* lines 141-145: the value under the first spelling that is a key of the map
\* (the loop breaks at the first key present, whatever its value)
RECURSIVE FirstProviderKey(_, _)
FirstProviderKey(pids, k) ==
    IF k > Len(ProviderKeys) THEN None
    ELSE IF ProviderKeys[k] \in DOMAIN pids.m THEN pids.m[ProviderKeys[k]]
    ELSE FirstProviderKey(pids, k + 1)

\* line 151, inside the try of lines 150-155: "match", "nomatch", or
\* "error" when int() raises ValueError
IdCompare(p, tmdb_id) ==
    IF PyStr(p) = IntToStr(tmdb_id) THEN "match"
    ELSE LET i == PyInt(p)
         IN IF IsRaise(i) THEN "error"
            ELSE IF i.n = tmdb_id THEN "match" ELSE "nomatch"

\* lines 133-134 without the filter: every entry is looked at
TypeMatchesAny(media_type, item_type) == TRUE

\* lines 133-134
TypeMatches(media_type, item_type) ==
    \/ media_type = "movie" /\ item_type = <<"m", "o", "v", "i", "e">>
    \/ media_type = "tv" /\ item_type = <<"s", "e", "r", "i", "e", "s">>

\* lines 158-168: whether the candidate is appended to matching_items_by_title
TitleMatches(title, item_name) ==
    /\ Len(title) > 0
    /\ Truthy(item_name)
    /\ LET normalized_title == Strip(Lower(title))
           normalized_item_name == Strip(Lower(item_name.s))
       IN \/ normalized_title = normalized_item_name
          \/ IsSubstring(normalized_title, normalized_item_name)
          \/ IsSubstring(normalized_item_name, normalized_title)

\* lines 175-186 without the preference of lines 177-181
PickFirstListed(matching, title) == matching[1]

\* lines 175-186: the choice among the title matches
PickByTitle(matching, title) ==
    LET exact == SelectSeq(matching,
                    LAMBDA m : Strip(Lower(Get(m, "Name", JS(<<>>)).s)) = Strip(Lower(title)))
    IN IF Len(exact) > 0 THEN exact[1] ELSE matching[1]

\* lines 127-193: the loop over the listing from candidate k on, with the
\* loop's accumulators; the result is the matched item, None, or Raise
RECURSIVE FindLoop(_, _, _, _, _, _, _)
FindLoop(items, k, tmdb_id, media_type, title, debug_with_tmdb, matching) ==
    IF k > Len(items)
    THEN IF Len(matching) > 0 /\ debug_with_tmdb = 0
         THEN PickByTitle(matching, title)
         ELSE None
    ELSE
    LET item == items[k]
        provider_ids == Get(item, "ProviderIds", JO(EmptyMap))
        type_raw == Get(item, "Type", JS(<<>>))
        item_name == Get(item, "Name", JS(<<"U", "n", "k", "n", "o", "w", "n">>))
        skip == FindLoop(items, k + 1, tmdb_id, media_type, title, debug_with_tmdb, matching)
    IN  IF type_raw.t # "str" THEN Raise                 \* None.lower()
        ELSE IF ~TypeMatches(media_type, Lower(type_raw.s)) THEN skip
        ELSE IF provider_ids.t # "obj" THEN Raise        \* key in None
        ELSE
        LET provider_tmdb == FirstProviderKey(provider_ids, 1)
            with_tmdb == IF Truthy(provider_tmdb) THEN debug_with_tmdb + 1 ELSE debug_with_tmdb
            cmp == IF Truthy(provider_tmdb) THEN IdCompare(provider_tmdb, tmdb_id) ELSE "nomatch"
            appended == IF TitleMatches(title, item_name) THEN Append(matching, item) ELSE matching
        IN  IF cmp = "match" THEN item
            ELSE IF cmp = "error"
                 THEN FindLoop(items, k + 1, tmdb_id, media_type, title, with_tmdb, matching)
            ELSE FindLoop(items, k + 1, tmdb_id, media_type, title, with_tmdb, appended)

\* the title matches looked at before the provider ids
FindItemTitleFirst(items, tmdb_id, media_type, title) ==
    LET matching == SelectSeq(items, LAMBDA item :
                        /\ TypeMatches(media_type, Lower(Get(item, "Type", JS(<<>>)).s))
                        /\ TitleMatches(title, Get(item, "Name", JS(<<>>))))
    IN  IF Len(matching) > 0 THEN PickByTitle(matching, title)
        ELSE FindLoop(items, 1, tmdb_id, media_type, title, 0, <<>>)

FindItemIn(items, tmdb_id, media_type, title) ==
    FindLoop(items, 1, tmdb_id, media_type, title, 0, <<>>)

----------------------------------------------------------------------------
(* The media server, as the client sees it.  A server state is a record    *)
(*   up       the HTTP requests get an answer (FALSE: every request raises *)
(*            a transport error)                                           *)
(*   users    the body of GET /Users                                       *)
(*   items    the library, in listing order (GET /Items)                   *)
(*   total    the TotalRecordCount the listing reports                     *)
(*   page     the most items the server puts in one page of the listing    *)
(*   fails    the number of the listing request that raises a transport    *)
(*            error (0: none does)                                         *)
(*   fresh    item id -> [status, body] of GET /Items/{id}                 *)
(*   episodes series id -> [status, items] of GET /Shows/{id}/Episodes     *)
(* The client is configured without jellyfin_username (config.py:13), so   *)
(* the resolved user id is cached in the client (_user_id).                *)

PageLimit == 200

Min(a, b) == IF a < b THEN a ELSE b

\* JellyfinClient.get_user_id: the user id returned, which is also the new
\* value of the cache when it is not None
GetUserId(server, cached) ==
    IF Truthy(cached) THEN cached
    ELSE IF server.up /\ Len(server.users) > 0 THEN Get(server.users[1], "Id", None)
    ELSE None

\* lines 85-102: the pagination loop; a request that raises leaves the loop
\* through the except of line 106 with the pages fetched so far.  The server
\* answers a request with the items from StartIndex on, Limit of them at most
\* and no more than it puts in a page
RECURSIVE FetchPages(_, _, _, _)
FetchPages(server, start_index, all_items, total_fetched) ==
    IF ~server.up \/ server.fails = start_index \div PageLimit + 1 THEN all_items
    ELSE
    LET items == SubSeq(server.items, start_index + 1,
                        Min(start_index + Min(PageLimit, server.page),
                            Len(server.items)))
        fetched == total_fetched + Len(items)
    IN  IF fetched >= server.total \/ Len(items) = 0
        THEN all_items \o items
        ELSE FetchPages(server, start_index + PageLimit, all_items \o items, fetched)

\* JellyfinClient.get_library_items
GetLibraryItems(server) == FetchPages(server, 0, <<>>, 0)

\* JellyfinClient.find_item_by_tmdb_id
FindItem(server, tmdb_id, media_type, title) ==
    FindItemIn(GetLibraryItems(server), tmdb_id, media_type, title)

\* lines 227-277 without the fallbacks of lines 265 and 275: an empty payload
\* when the fetch does not give one
UserDataOfNoFallback(server, item, item_id) ==
    IF ~server.up \/ item_id.s \notin DOMAIN server.fresh THEN JO(EmptyMap)
    ELSE LET r == server.fresh[item_id.s]
         IN IF r.status # 200 THEN JO(EmptyMap)
            ELSE LET user_data == Get(r.body, "UserData", JO(EmptyMap))
                 IN IF user_data.t # "obj" THEN JO(EmptyMap) ELSE user_data

\* lines 227-277: the user-state payload is_watched works on: the fresh
\* per-item payload, or the one embedded in the listing entry when the fetch
\* does not answer 200 or anything inside the try raises
UserDataOf(server, item, item_id) ==
    LET embedded == Get(item, "UserData", JO(EmptyMap))
    IN  IF ~server.up \/ item_id.s \notin DOMAIN server.fresh THEN embedded
        ELSE LET r == server.fresh[item_id.s]
             IN IF r.status # 200 THEN embedded
                ELSE LET user_data == Get(r.body, "UserData", JO(EmptyMap))
                     IN IF user_data.t # "obj" THEN embedded   \* line 239 raises
                        ELSE user_data

\* lines 279-300; a comparison with None raises TypeError
MovieWatched(user_data) ==
    IF user_data.t # "obj" THEN Raise
    ELSE
    LET played == Get(user_data, "Played", JB(FALSE))
        played_percentage == Get(user_data, "PlayedPercentage", JI(0))
        play_count == Get(user_data, "PlayCount", JI(0))
        last_played_date == Get(user_data, "LastPlayedDate", None)
    IN  IF Truthy(played) THEN JB(TRUE)
        ELSE IF play_count.t # "int" THEN Raise
        ELSE IF play_count.n > 0 THEN JB(TRUE)
        ELSE IF played_percentage.t # "int" THEN Raise
        ELSE IF played_percentage.n >= 100 THEN JB(TRUE)
        ELSE JB(last_played_date.t # "null")

\* lines 301-342 with line 332 counting a series as watched once an episode is
SeriesWatchedAny(server, user_data, series_id) ==
    IF user_data.t # "obj" THEN Raise
    ELSE
    LET played == Truthy(Get(user_data, "Played", JB(FALSE)))
    IN  IF played THEN JB(TRUE)
        ELSE IF ~server.up \/ series_id.s \notin DOMAIN server.episodes THEN JB(played)
        ELSE LET r == server.episodes[series_id.s]
             IN IF r.status # 200 \/ Len(r.items) = 0 THEN JB(played)
                ELSE JB(\E k \in 1..Len(r.items) :
                          Truthy(Get(Get(r.items[k], "UserData", JO(EmptyMap)),
                                     "Played", JB(FALSE))))

\* lines 301-342
SeriesWatched(server, user_data, series_id) ==
    IF user_data.t # "obj" THEN Raise
    ELSE
    LET played == Truthy(Get(user_data, "Played", JB(FALSE)))
    IN  IF played THEN JB(TRUE)
        ELSE IF ~server.up \/ series_id.s \notin DOMAIN server.episodes THEN JB(played)
        ELSE LET r == server.episodes[series_id.s]
             IN IF r.status # 200 \/ Len(r.items) = 0 THEN JB(played)
                ELSE JB(\A k \in 1..Len(r.items) :
                          Truthy(Get(Get(r.items[k], "UserData", JO(EmptyMap)),
                                     "Played", JB(FALSE))))

\* lines 208-342: is_watched from the matched listing entry on
WatchedOfItem(server, cached, item, media_type) ==
    LET item_id == Get(item, "Id", None)
        user_id == GetUserId(server, cached)
    IN  IF ~Truthy(item_id) THEN JB(FALSE)
        ELSE IF ~Truthy(user_id)
        THEN LET user_data == Get(item, "UserData", JO(EmptyMap))
             IN IF Truthy(user_data)
                THEN JB(Truthy(Get(user_data, "Played", JB(FALSE))))
                ELSE JB(FALSE)
        ELSE LET user_data == UserDataOf(server, item, item_id)
             IN IF media_type = "movie" THEN MovieWatched(user_data)
                ELSE SeriesWatched(server, user_data, item_id)

\* JellyfinClient.is_watched: a second lookup of the item, then its state
IsWatched(server, cached, tmdb_id, media_type, title) ==
    LET item == FindItem(server, tmdb_id, media_type, title)
    IN  IF IsRaise(item) THEN Raise
        ELSE IF item = None THEN JB(FALSE)
        ELSE WatchedOfItem(server, cached, item, media_type)

----------------------------------------------------------------------------
(* Bounds and fixtures *)

MaxItems == 2

ItemIds == 1..MaxItems

\* The watchlist rows' immutable columns: odd ids are movies, even ids series
TitleOf(i) == IF i % 2 = 1 THEN <<"A">> ELSE <<"B">>
KindOf(i) == IF i % 2 = 1 THEN "movie" ELSE "tv"

Txt(i) == <<DigitChar(i)>>
Handle(i) == <<"j", DigitChar(i)>>

\* WatchlistItem (models.py:7-24) as created with the column defaults
\* (lines 15-17 and the dates are left out: no code path modelled here
\* reads them)
NewRow(i) == [tmdb_id |-> i, media_type |-> KindOf(i), title |-> TitleOf(i),
              is_available |-> FALSE, is_watched |-> FALSE,
              watched_manually_set |-> FALSE, queue_order |-> None,
              jellyfin_item_id |-> None]

RemoteType(i) == IF i % 2 = 1 THEN <<"M", "o", "v", "i", "e">>
                 ELSE <<"S", "e", "r", "i", "e", "s">>

\* A library entry for watchlist item i, with the given user state
Entry(i, user_data) ==
    JO([Id |-> JS(Handle(i)), Type |-> JS(RemoteType(i)), Name |-> JS(TitleOf(i)),
        ProviderIds |-> JO([Tmdb |-> JS(Txt(i))]), UserData |-> user_data])

Episode(played) == JO([UserData |-> JO([Played |-> JB(played)])])

\* The library, the per-item answers and the episode answers for the items
\* 1..n of the watchlist
RECURSIVE LibraryUpTo(_, _)
LibraryUpTo(n, user_data) ==
    IF n = 0 THEN <<>> ELSE Append(LibraryUpTo(n - 1, user_data), Entry(n, user_data))
Library(user_data) == LibraryUpTo(MaxItems, user_data)

RECURSIVE FreshUpTo(_, _, _)
FreshUpTo(n, status, user_data) ==
    IF n = 0 THEN EmptyMap
    ELSE (Handle(n) :> [status |-> status,
                        body |-> JO([Id |-> JS(Handle(n)), UserData |-> user_data])])
         @@ FreshUpTo(n - 1, status, user_data)
Fresh(user_data) == FreshUpTo(MaxItems, 200, user_data)
NotFound == FreshUpTo(MaxItems, 404, None)

RECURSIVE EpisodesUpTo(_, _)
EpisodesUpTo(n, all_played) ==
    IF n = 0 THEN EmptyMap
    ELSE (Handle(n) :> [status |-> 200, items |-> <<Episode(TRUE), Episode(all_played)>>])
         @@ EpisodesUpTo(n - 1, all_played)
Episodes(all_played) == EpisodesUpTo(MaxItems, all_played)

Users == <<JO([Id |-> JS(<<"u">>), Name |-> JS(<<"a">>)])>>

Unplayed == JO([Played |-> JB(FALSE), PlayCount |-> JI(0)])
Played == JO([Played |-> JB(TRUE), PlayCount |-> JI(1)])

\* The server states the environment moves between
Servers ==
    [down |->
        [up |-> FALSE, users |-> Users, items |-> Library(Played),
         total |-> MaxItems, page |-> PageLimit, fails |-> 0,
         fresh |-> Fresh(Played), episodes |-> Episodes(TRUE)],
     unseen |->
        [up |-> TRUE, users |-> Users, items |-> Library(Unplayed),
         total |-> MaxItems, page |-> PageLimit, fails |-> 0,
         fresh |-> Fresh(Unplayed), episodes |-> Episodes(FALSE)],
     seen |->
        [up |-> TRUE, users |-> Users, items |-> Library(Played),
         total |-> MaxItems, page |-> PageLimit, fails |-> 0,
         fresh |-> Fresh(Played), episodes |-> Episodes(TRUE)],
     badstate |->
        [up |-> TRUE, users |-> Users, items |-> Library(None),
         total |-> MaxItems, page |-> PageLimit, fails |-> 0,
         fresh |-> NotFound, episodes |-> Episodes(TRUE)],
     badtype |->
        [up |-> TRUE, users |-> Users,
         items |-> <<JO([Id |-> JS(<<"x">>), Type |-> None])>> \o Library(Played),
         total |-> MaxItems + 1, page |-> PageLimit, fails |-> 0,
         fresh |-> Fresh(Played), episodes |-> Episodes(TRUE)]]

RemoteStates == DOMAIN Servers

ServerOf(name) == Servers[name]



----------------------------------------------------------------------------
(* State *)

VARIABLES
    db,             \* storage: item id -> committed row of watchlist_items
    remote,         \* the media server's state at the last request of the pass,
                    \* a name of RemoteStates ("none" outside a pass)
    pc,             \* where the periodic task is (see the actions)
    items,          \* sync_jellyfin_status: the list loaded at line 15 (ids)
    idx,            \* sync_jellyfin_status: position of the for loop in items
    session,        \* the pass's Session: id -> row as the pass sees it
    loaded,         \* the pass's Session: id -> row as it was loaded
    jellyfin_item,  \* sync_jellyfin_status: the local of line 20
    user_id,        \* JellyfinClient._user_id of the pass's client
    exc,            \* the exception being handled or propagated
    ret,            \* what the last sync_jellyfin_status call returned
    printed,        \* the log lines of the current invocation
    outcome,        \* id -> what reconciling the item did in the current pass
    twice,          \* a twice-run: its server state and the storage at its calls
    call,           \* a single call of a client method: its arguments and result
    adds,           \* the add_to_watchlist requests in flight: slot -> its locals
    backfill,       \* the backfill run in flight: its position, items and Session
    host,           \* where lifespan (main.py:182-210) is
    held            \* what the pass has open: its Session, its JellyfinClient

vars == <<db, remote, pc, items, idx, session, loaded, jellyfin_item,
          user_id, exc, ret, printed, outcome, twice, call, adds, backfill, host, held>>

\* what the periodic task and the client's methods neither read nor write
elsewhere == <<adds, backfill, host>>

RECURSIVE SortedSeq(_)
SortedSeq(S) == IF S = {} THEN <<>>
                ELSE LET m == CHOOSE x \in S : \A y \in S : x <= y
                     IN <<m>> \o SortedSeq(S \ {m})

NoSession == <<>>
NoOutcome == [i \in ItemIds |-> "none"]
NoTwice == [server |-> "none", before |-> <<>>]
NoCall == [op |-> "none"]
NoAdds == <<>>
NoBackfill == [pc |-> "idle"]

\* The coroutine is suspended in an await exactly at these places; the code
\* between two awaits runs without any other coroutine or request in between
AwaitPoints == {"find", "watched", "finally", "sleep"}

\* Where requests and the environment are interleaved.  The await of line 45
\* (jellyfin.close()) is left out: the step after it reads and writes neither
\* the storage nor the server, so what happens during it is what happens at
\* the start of the sleep
EnvPoints == {"find", "watched", "sleep"}

----------------------------------------------------------------------------
(* sync_jellyfin_status, lines 17-37: what one item's reconciliation does *)

\* lines 22-23
FoundUpdate(row, item) ==
    [row EXCEPT !.is_available = TRUE, !.jellyfin_item_id = Get(item, "Id", None)]

\* line 25 without its condition: the watched state is fetched for every item
NeedsWatchedAlways(row) == TRUE

\* line 25
NeedsWatched(row) == ~row.watched_manually_set

\* line 27
WatchedUpdate(row, is_watched) == [row EXCEPT !.is_watched = is_watched]

\* lines 29-33 without line 33: the stale handle stays
NotFoundKeepsHandle(row) ==
    [row EXCEPT !.is_available = FALSE,
                !.is_watched = IF row.watched_manually_set THEN @ ELSE FALSE]

\* lines 29-33 with line 32 copying the availability the row had
NotFoundWatchedFromAvailable(row) ==
    [row EXCEPT !.is_available = FALSE,
                !.is_watched = IF row.watched_manually_set THEN @ ELSE row.is_available,
                !.jellyfin_item_id = None]

\* lines 29-33
NotFoundUpdate(row) ==
    [row EXCEPT !.is_available = FALSE,
                !.is_watched = IF row.watched_manually_set THEN @ ELSE FALSE,
                !.jellyfin_item_id = None]

\* the for loop's next position after item number k of n
NextPos(k, n) == IF k < n THEN [pc |-> "find", idx |-> k + 1]
                 ELSE [pc |-> "commit", idx |-> k]

\* lines 35-37 without the inner try: the exception reaches the outer handler
OnItemErrorAbort(k, n) == [pc |-> "except", idx |-> k]

\* lines 35-37: except Exception: print; continue
OnItemError(k, n) == NextPos(k, n)

\* line 39 writing nothing: the session's changes are dropped
FlushNothing(stored, was, now) == stored

\* line 39 writing every column of every loaded row, changed or not
FlushWholeRow(stored, was, now) == now

\* line 39, db.commit(): the flush writes, for every loaded row, the columns
\* whose value in the session differs from the value loaded (the unit of work
\* emits UPDATE ... SET for changed attributes only), over the stored row
Flush(stored, was, now) ==
    [c \in DOMAIN stored |-> IF now[c] # was[c] THEN now[c] ELSE stored[c]]

\* lines 40-42: the exception left after the handler of the outer try, which
\* prints and rolls back (rollback_raises: db.rollback() itself raises)
OnSyncError(e, rollback_raises) == IF rollback_raises THEN "rollback" ELSE "none"

\* main.py:841-842 with the toggle also marking the row unavailable
ToggleUpdateUnavailable(row) ==
    [row EXCEPT !.is_watched = ~row.is_watched, !.watched_manually_set = TRUE,
                !.is_available = FALSE, !.jellyfin_item_id = None]

\* main.py:841-842 without line 842: the toggle leaves no mark
ToggleUpdateNoMark(row) == [row EXCEPT !.is_watched = ~row.is_watched]

\* main.py:841-842
ToggleUpdate(row) ==
    [row EXCEPT !.is_watched = ~row.is_watched, !.watched_manually_set = TRUE]

----------------------------------------------------------------------------
(* sync_jellyfin_status (sync.py:9-45) *)

\* lines 11-12: a new Session and a new JellyfinClient
BeginPass ==
    /\ pc' = "load"
    /\ user_id' = None
    /\ printed' = {}
    /\ outcome' = NoOutcome
    /\ exc' = "none"
    /\ ret' = Absent
    /\ held' = {"session", "client"}
    /\ UNCHANGED <<db, remote, items, idx, session, loaded,
                   jellyfin_item>>

\* line 15: items = db.query(WatchlistItem).all(); ok: the storage answers
LoadStep(ok) ==
    /\ pc = "load"
    /\ IF ok
       THEN /\ items' = SortedSeq(DOMAIN db)
            /\ session' = db
            /\ loaded' = db
            /\ pc' = IF DOMAIN db = {} THEN "commit" ELSE "find"
            /\ idx' = IF DOMAIN db = {} THEN 0 ELSE 1
            /\ exc' = exc
       ELSE /\ pc' = "except"
            /\ exc' = "load"
            /\ UNCHANGED <<items, idx, session, loaded>>
    /\ UNCHANGED <<db, remote, jellyfin_item, user_id, ret, printed, outcome, twice, call, held, elsewhere>>

Load == \E ok \in BOOLEAN : LoadStep(ok)

\* lines 20-23 and 28-33: the lookup of items[idx] returns
FindStep(r) ==
    /\ pc = "find"
    /\ remote' = r
    /\ LET Srv == ServerOf(r)
           i == items[idx]
           row == session[i]
           next == NextPos(idx, Len(items))
           err == OnItemError(idx, Len(items))
       IN  /\ user_id' = GetUserId(Srv, user_id)
           /\ \E found \in {FindItem(Srv, row.tmdb_id, row.media_type, row.title)} :
              IF IsRaise(found)
              THEN /\ printed' = printed \cup {"item_error"}
                   /\ outcome' = [outcome EXCEPT ![i] = "find_raised"]
                   /\ pc' = err.pc
                   /\ idx' = err.idx
                   /\ UNCHANGED <<session, jellyfin_item>>
              ELSE IF found # None
              THEN /\ session' = [session EXCEPT ![i] = FoundUpdate(row, found)]
                   /\ IF NeedsWatched(row)
                      THEN /\ pc' = "watched"
                           /\ idx' = idx
                           /\ jellyfin_item' = found
                           /\ outcome' = [outcome EXCEPT ![i] = "matched"]
                      ELSE /\ pc' = next.pc
                           /\ idx' = next.idx
                           /\ jellyfin_item' = None
                           /\ outcome' = [outcome EXCEPT ![i] = "found"]
                   /\ printed' = printed
              ELSE /\ session' = [session EXCEPT ![i] = NotFoundUpdate(row)]
                   /\ pc' = next.pc
                   /\ idx' = next.idx
                   /\ jellyfin_item' = None
                   /\ outcome' = [outcome EXCEPT ![i] = "notfound"]
                   /\ printed' = printed
    /\ UNCHANGED <<db, items, loaded, exc, ret, twice, call, held, elsewhere>>

\* the server is in any of its states when the request reaches it
Find == \E r \in RemoteStates : FindStep(r)

\* lines 26-27: is_watched returns
WatchedStep(r) ==
    /\ pc = "watched"
    /\ remote' = r
    /\ LET Srv == ServerOf(r)
           i == items[idx]
           row == session[i]
           next == NextPos(idx, Len(items))
           err == OnItemError(idx, Len(items))
       IN  /\ user_id' = GetUserId(Srv, user_id)
           /\ jellyfin_item' = None
           /\ \E is_watched \in
                 {IsWatched(Srv, user_id, row.tmdb_id, row.media_type, row.title)} :
              IF IsRaise(is_watched)
              THEN /\ printed' = printed \cup {"item_error"}
                   /\ outcome' = [outcome EXCEPT ![i] = "watched_raised"]
                   /\ pc' = err.pc
                   /\ idx' = err.idx
                   /\ session' = session
              ELSE /\ session' = [session EXCEPT ![i] = WatchedUpdate(row, is_watched.b)]
                   /\ outcome' = [outcome EXCEPT ![i] = "found"]
                   /\ pc' = next.pc
                   /\ idx' = next.idx
                   /\ printed' = printed
    /\ UNCHANGED <<db, items, loaded, exc, ret, twice, call, held, elsewhere>>

Watched == \E r \in RemoteStates : WatchedStep(r)

\* db.close() (line 44) and the end of the client's use: the finally clause
\* up to its await
CloseSession ==
    /\ remote' = "none"
    /\ session' = NoSession
    /\ loaded' = NoSession
    /\ items' = <<>>
    /\ idx' = 0
    /\ jellyfin_item' = None
    /\ user_id' = None

\* line 39: db.commit(); ok: the storage answers.  When it does, the finally
\* clause follows up to the await of line 45; when it raises, nothing of the
\* session is written any more (the handler rolls back and the finally clause
\* closes it), so the session ends here
CommitStep(ok) ==
    /\ pc = "commit"
    /\ IF ok
       THEN /\ db' = [i \in DOMAIN db |->
                        IF i \in DOMAIN session
                        THEN Flush(db[i], loaded[i], session[i]) ELSE db[i]]
            /\ pc' = "finally"
            /\ exc' = exc
            /\ CloseSession
            /\ held' = held \ {"session"}
       ELSE /\ pc' = "except"
            /\ exc' = "commit"
            /\ db' = db
            /\ CloseSession
            /\ held' = held
    /\ UNCHANGED <<ret, printed, outcome, twice, call, elsewhere>>

Commit == \E ok \in BOOLEAN : CommitStep(ok)

\* lines 40-44: except Exception: print; db.rollback(); then the finally
\* clause up to the await of line 45
Except ==
    /\ pc = "except"
    /\ \E rollback_raises \in BOOLEAN : exc' = OnSyncError(exc, rollback_raises)
    /\ printed' = printed \cup {"sync_task_error"}
    /\ pc' = "finally"
    /\ CloseSession
    /\ held' = held \ {"session"}
    /\ UNCHANGED <<db, ret, outcome, twice, call, elsewhere>>

\* line 45: jellyfin.close() returns (jellyfin_client.py:344-346); then the function returns None, or the
\* pending exception goes on to the caller
Finally ==
    /\ pc = "finally"
    /\ ret' = IF exc = "none" THEN None ELSE ret
    /\ pc' = "returned"
    /\ held' = held \ {"client"}
    /\ UNCHANGED <<db, remote, items, idx, session, loaded, jellyfin_item, user_id,
                   exc, printed, outcome, twice, call, elsewhere>>

----------------------------------------------------------------------------
(* run_periodic_sync (sync.py:48-57) and its cancellation (main.py:205) *)

\* line 52
SchedCall ==
    /\ pc = "tick"
    /\ BeginPass
    /\ UNCHANGED <<twice, call, elsewhere>>

\* lines 53-57 without the except clause of lines 54-55: an exception of the
\* call ends the loop
SchedAfterStops ==
    /\ pc = "returned"
    /\ host # "initial"
    /\ IF exc # "none"
       THEN /\ pc' = "stopped"
            /\ UNCHANGED <<exc, printed>>
       ELSE /\ pc' = "sleep"
            /\ printed' = printed \cup {"completed"}
            /\ exc' = "none"
    /\ outcome' = NoOutcome
    /\ UNCHANGED <<db, remote, items, idx, session, loaded, jellyfin_item,
                   user_id, ret, twice, call, held, elsewhere>>

\* lines 53-57 without line 57: the next call follows at once
SchedAfterNoSleep ==
    /\ pc = "returned"
    /\ host # "initial"
    /\ IF exc = "cancelled"
       THEN /\ pc' = "stopped"
            /\ UNCHANGED <<exc, printed>>
       ELSE /\ pc' = "tick"
            /\ printed' = printed \cup {IF exc = "none" THEN "completed" ELSE "periodic_error"}
            /\ exc' = "none"
    /\ outcome' = NoOutcome
    /\ UNCHANGED <<db, remote, items, idx, session, loaded, jellyfin_item,
                   user_id, ret, twice, call, held, elsewhere>>

\* lines 53-57 with except BaseException: a cancellation too is printed and
\* followed by the sleep
SchedAfterCatchesAll ==
    /\ pc = "returned"
    /\ host # "initial"
    /\ pc' = "sleep"
    /\ printed' = printed \cup {IF exc = "none" THEN "completed" ELSE "periodic_error"}
    /\ exc' = exc
    /\ outcome' = NoOutcome
    /\ UNCHANGED <<db, remote, items, idx, session, loaded, jellyfin_item,
                   user_id, ret, twice, call, held, elsewhere>>

\* lines 53-57: the call returned or raised; both ways lead to the sleep,
\* except for CancelledError, which except Exception does not catch (the
\* call lifespan makes at startup returns to lifespan, not here)
SchedAfter ==
    /\ pc = "returned"
    /\ host # "initial"
    /\ IF exc = "cancelled"
       THEN /\ pc' = "stopped"
            /\ UNCHANGED <<exc, printed>>
       ELSE /\ pc' = "sleep"
            /\ printed' = printed \cup {IF exc = "none" THEN "completed" ELSE "periodic_error"}
            /\ exc' = "none"
    /\ outcome' = NoOutcome
    /\ UNCHANGED <<db, remote, items, idx, session, loaded, jellyfin_item,
                   user_id, ret, twice, call, held, elsewhere>>

\* line 57: the sleep ends
SchedWake ==
    /\ pc = "sleep"
    /\ pc' = "tick"
    /\ UNCHANGED <<db, remote, items, idx, session, loaded, jellyfin_item,
                   user_id, exc, ret, printed, outcome, twice, call, held, elsewhere>>

\* main.py:205, sync_task.cancel(), called once at shutdown: CancelledError is
\* raised in the await the task is suspended in.  In a pass it passes both except Exception clauses
\* and runs the finally clause; in the finally's own await (line 45) it ends
\* the call, with close() interrupted before it returns (closed: the client
\* had closed its connections by then); in the sleep it ends the loop
Cancel ==
    /\ pc \in AwaitPoints
    /\ pc' = IF pc \in {"find", "watched"} THEN "finally"
             ELSE IF pc = "finally" THEN "returned" ELSE "stopped"
    /\ exc' = "cancelled"
    /\ CloseSession
    /\ outcome' = IF pc = "sleep" THEN NoOutcome ELSE outcome
    /\ host = "serving"
    /\ host' = "shutdown"
    /\ \E closed \in BOOLEAN :
          held' = IF pc \in {"find", "watched"} THEN held \ {"session"}
                  ELSE IF pc = "finally" /\ closed THEN held \ {"client"}
                  ELSE held
    /\ UNCHANGED <<db, ret, printed, twice, call, adds, backfill>>

----------------------------------------------------------------------------
(* What runs while the task is suspended *)

\* toggle_watched_status (main.py:830-846); the handler has no await
Toggle(i) ==
    /\ pc \in EnvPoints
    /\ i \in DOMAIN db
    /\ db' = [db EXCEPT ![i] = ToggleUpdate(db[i])]
    /\ UNCHANGED <<remote, pc, items, idx, session, loaded, jellyfin_item,
                   user_id, exc, ret, printed, outcome, twice, call, held, elsewhere>>

----------------------------------------------------------------------------
(* The periodic task with requests and the environment *)

Init ==
    /\ db = [i \in ItemIds |-> NewRow(i)]
    /\ remote = "none"
    /\ pc = "tick"
    /\ items = <<>>
    /\ idx = 0
    /\ session = NoSession
    /\ loaded = NoSession
    /\ jellyfin_item = None
    /\ user_id = None
    /\ exc = "none"
    /\ ret = Absent
    /\ printed = {}
    /\ outcome = NoOutcome
    /\ held = {}
    /\ twice = NoTwice
    /\ call = NoCall
    /\ adds = NoAdds
    /\ backfill = NoBackfill
    /\ host = "serving"

Next ==
    \/ SchedCall
    \/ Load
    \/ Find
    \/ Watched
    \/ Commit
    \/ Except
    \/ Finally
    \/ SchedAfter
    \/ SchedWake
    \/ Cancel
    \/ \E i \in ItemIds : Toggle(i)

Spec == Init /\ [][Next]_vars

----------------------------------------------------------------------------
(* Two calls of sync_jellyfin_status in a row: the server stays in one     *)
(* state, the storage answers, and no request and no cancellation comes in *)
(* between.  The watchlist starts from any rows earlier passes and toggles *)
(* can have left.                                                          *)

\* The rows of item i: an unavailable row has no handle (sync.py:29-33)
RowStates(i) ==
    {r \in {[NewRow(i) EXCEPT !.is_available = a, !.is_watched = w,
                              !.watched_manually_set = m, !.jellyfin_item_id = h] :
               a \in BOOLEAN, w \in BOOLEAN, m \in BOOLEAN,
               h \in {None, JS(Handle(i)), JS(<<"o">>)}} :
        r.is_available \/ r.jellyfin_item_id = None}

RECURSIVE TablesUpTo(_)
TablesUpTo(n) ==
    IF n = 0 THEN {<<>>}
    ELSE {Append(t, r) : t \in TablesUpTo(n - 1), r \in RowStates(n)}

InitTwice ==
    /\ db \in TablesUpTo(MaxItems)
    /\ twice \in {[server |-> r, before |-> <<>>] : r \in RemoteStates}
    /\ call = NoCall
    /\ adds = NoAdds
    /\ backfill = NoBackfill
    /\ host = "serving"
    /\ remote = "none"
    /\ pc = "tick"
    /\ items = <<>>
    /\ idx = 0
    /\ session = NoSession
    /\ loaded = NoSession
    /\ jellyfin_item = None
    /\ user_id = None
    /\ exc = "none"
    /\ ret = Absent
    /\ printed = {}
    /\ outcome = NoOutcome
    /\ held = {}

\* the call; twice.before records the storage each call starts from
TwiceCall ==
    /\ pc = "tick"
    /\ Len(twice.before) < 2
    /\ BeginPass
    /\ twice' = [twice EXCEPT !.before = Append(@, db)]
    /\ UNCHANGED <<call, elsewhere>>

TwiceLoad == LoadStep(TRUE)

TwiceFind == FindStep(twice.server)

TwiceWatched == WatchedStep(twice.server)

TwiceCommit == CommitStep(TRUE)

\* the call returned; the next one follows
TwiceReturn ==
    /\ pc = "returned"
    /\ pc' = "tick"
    /\ UNCHANGED <<db, remote, items, idx, session, loaded, jellyfin_item,
                   user_id, exc, ret, printed, outcome, twice, call, held, elsewhere>>

NextTwice ==
    \/ TwiceCall
    \/ TwiceLoad
    \/ TwiceFind
    \/ TwiceWatched
    \/ TwiceCommit
    \/ Finally
    \/ TwiceReturn

SpecTwice == InitTwice /\ [][NextTwice]_vars

----------------------------------------------------------------------------
(* Properties of a reconciliation pass *)

\* the outcomes of an item whose reconciliation raised (sync.py:35-37) and of
\* one whose reconciliation went through (lines 21-33)
Raised == {"find_raised", "watched_raised"}
Reconciled == {"found", "notfound"}

\* the commit of line 39 went through in this step
Committing == pc = "commit" /\ pc' = "finally"

\* C1: for an item the pass loaded with watched_manually_set, no step of the
\* pass changes the is_watched the session holds for it, and the commit writes
\* no is_watched for it, whether the lookup finds the item watched, finds it
\* unwatched or does not find it
C1_OverrideKeepsWatched ==
    [][\A i \in ItemIds :
          /\ (i \in DOMAIN session /\ i \in DOMAIN session'
                 /\ session[i].watched_manually_set)
                => session'[i].is_watched = session[i].is_watched
          /\ (pc = "commit" /\ loaded[i].watched_manually_set)
                => db'[i].is_watched = db[i].is_watched]_vars

\* C1 happens: the last item of the pass has the override and is not watched,
\* and its lookup found it on a server that holds it as played
C1_Witness ==
    /\ pc = "commit"
    /\ remote = "seen"
    /\ outcome[items[idx]] = "found"
    /\ session[items[idx]].watched_manually_set
    /\ ~session[items[idx]].is_watched

\* C2: once the stored row has watched_manually_set, the stored is_watched is
\* changed by a toggle only, in every interleaving of a pass with toggles
C2_OnlyToggleChangesOverridden ==
    [][\A i \in ItemIds :
          (db[i].watched_manually_set /\ db'[i].is_watched # db[i].is_watched)
             => /\ db' = [db EXCEPT ![i] = ToggleUpdate(db[i])]
                /\ pc' = pc]_vars

\* C3: an item whose reconciliation raises never ends the pass (only the load
\* and the commit lead to the outer handler); at the commit every item has been
\* attempted, and the commit stores the new values of every item that did not
\* raise
C3_ItemFailureIsolated ==
    [][/\ pc' = "except" => pc \in {"load", "commit"}
       /\ Committing =>
            \A i \in DOMAIN session :
               /\ outcome[i] # "none"
               /\ outcome[i] \in Reconciled =>
                    /\ db'[i].is_available = session[i].is_available
                    /\ db'[i].jellyfin_item_id = session[i].jellyfin_item_id
                    /\ session[i].is_watched # loaded[i].is_watched
                          => db'[i].is_watched = session[i].is_watched]_vars

\* C3 happens: a committed pass in which one item raised and another one, found
\* for the first time, is stored as available with its handle
C3_Witness ==
    /\ pc = "finally"
    /\ exc = "none"
    /\ "sync_task_error" \notin printed
    /\ \E i, j \in ItemIds :
          /\ outcome[i] \in Raised
          /\ outcome[j] = "found"
          /\ db[j].is_available
          /\ db[j].jellyfin_item_id = JS(Handle(j))

\* C4: a pass that ends normally returns the counts {processed, skipped}:
\* skipped is the number of items that raised, processed the number of the
\* others
C4_ReturnsCounts ==
    (pc = "returned" /\ exc = "none" /\ "sync_task_error" \notin printed)
        => LET skipped == Cardinality({i \in ItemIds : outcome[i] \in Raised})
               processed == Cardinality({i \in ItemIds : outcome[i] \in Reconciled})
           IN  ret = JO([processed |-> JI(processed), skipped |-> JI(skipped)])

\* C5: an item whose reconciliation raised, in the match lookup or in the
\* watched lookup, is stored by the pass exactly as it was
C5_RaisedItemUnchanged ==
    [][Committing => \A i \in DOMAIN session : outcome[i] \in Raised => db'[i] = db[i]]_vars

\* C6: when the pass is cancelled in the middle, the new values of the items
\* reconciled so far are in storage
C6_PersistedImmediately ==
    [][(pc \in {"find", "watched"} /\ exc' = "cancelled") =>
          \A i \in DOMAIN session :
             outcome[i] \in Reconciled =>
                /\ db'[i].is_available = session[i].is_available
                /\ db'[i].jellyfin_item_id = session[i].jellyfin_item_id
                /\ session[i].is_watched # loaded[i].is_watched
                      => db'[i].is_watched = session[i].is_watched]_vars

\* C7: the scheduler observes the storage failure of an invocation: after an
\* invocation whose load or commit failed, the scheduler has logged its error
C7_StorageErrorSurfaced ==
    (pc = "sleep" /\ "sync_task_error" \in printed) => "periodic_error" \in printed

\* C8: an item the lookup did not find is unavailable and without handle in
\* the session, and not watched unless it has the override; the commit stores
\* the same
C8_NotFoundPath ==
    [][\A i \in ItemIds :
          /\ (i \in DOMAIN session' /\ outcome'[i] = "notfound") =>
                /\ ~session'[i].is_available
                /\ session'[i].jellyfin_item_id = None
                /\ ~session'[i].watched_manually_set => ~session'[i].is_watched
          /\ (Committing /\ outcome[i] = "notfound") =>
                /\ ~db'[i].is_available
                /\ db'[i].jellyfin_item_id = None
                /\ ~db'[i].watched_manually_set => ~db'[i].is_watched]_vars

\* C8 happens: an item that was available and watched, without the override,
\* is not found by the pass
C8_Witness ==
    \E i \in DOMAIN session :
       /\ outcome[i] = "notfound"
       /\ loaded[i].is_available
       /\ loaded[i].is_watched
       /\ ~loaded[i].watched_manually_set

\* C9: for an item without the override whose match was found, the pass holds
\* available, the handle of the matched entry, and as watched what is_watched
\* from that matched entry on yields, whatever the server does at the watched
\* lookup
C9_WatchedOfMatchedItem ==
    [][(pc = "watched" /\ pc' # "finally") =>
          LET i == items[idx]
              w == WatchedOfItem(ServerOf(remote'), user_id, jellyfin_item,
                                 session[i].media_type)
          IN  IF IsRaise(w) THEN outcome'[i] = "watched_raised"
              ELSE /\ outcome'[i] = "found"
                   /\ session'[i].is_available
                   /\ session'[i].jellyfin_item_id = Get(jellyfin_item, "Id", None)
                   /\ session'[i].is_watched = w.b]_vars

\* C10: with the server in one state and nothing else running, the second of
\* two calls in a row leaves the storage as the first call left it
C10_SecondRunChangesNothing ==
    (Len(twice.before) = 2 /\ pc = "returned") => db = twice.before[2]

\* C10 happens: the second call has returned, and the first one had changed
\* the storage
C10_Witness ==
    /\ Len(twice.before) = 2
    /\ pc = "returned"
    /\ twice.before[1] # twice.before[2]

----------------------------------------------------------------------------
(* Single calls of the client's methods.  The periodic task is at rest and *)
(* call holds one call: its arguments, and its result once it has returned *)

Parked ==
    /\ db = <<>>
    /\ remote = "none"
    /\ pc = "stopped"
    /\ items = <<>>
    /\ idx = 0
    /\ session = NoSession
    /\ loaded = NoSession
    /\ jellyfin_item = None
    /\ user_id = None
    /\ exc = "none"
    /\ ret = Absent
    /\ printed = {}
    /\ outcome = NoOutcome
    /\ held = {}
    /\ twice = NoTwice
    /\ adds = NoAdds
    /\ backfill = NoBackfill
    /\ host = "down"

taskVars == <<db, remote, pc, items, idx, session, loaded, jellyfin_item,
              user_id, exc, ret, printed, outcome, twice, held, elsewhere>>

MinOf(S) == CHOOSE x \in S : \A y \in S : x <= y

----------------------------------------------------------------------------
(* find_item_by_tmdb_id on the listings of at most MaxListing entries *)

MaxListing == 2

\* The names of the entries, against the titles asked for: equal after
\* lower() and strip(), containing the title, contained in it, unrelated
CandidateNames == {<<" ", "a", "B">>, <<"A", "b", "b">>, <<"B">>, <<"S">>}
Titles == {<<"A", "b">>, <<"B">>}

\* The ProviderIds maps of the entries: no id, the id as a number, as text
\* with a leading zero, another id, no number at all, and two spellings that
\* disagree
CandidateIds ==
    {JO(EmptyMap),
     JO([Tmdb |-> JI(1)]),
     JO([tmdb |-> JS(<<"0", "1">>)]),
     JO([TheMovieDb |-> JS(<<"9">>)]),
     JO([Tmdb |-> JS(<<"x">>)]),
     JO([Tmdb |-> JS(<<"9">>), TMDB |-> JS(<<"1">>)])}

Candidates ==
    {[type |-> RemoteType(1), name |-> n, ids |-> p] :
        n \in CandidateNames, p \in CandidateIds}
    \cup {[type |-> RemoteType(2), name |-> <<" ", "a", "B">>, ids |-> p] :
            p \in {JO(EmptyMap), JO([Tmdb |-> JI(1)])}}

\* the listing entry of a candidate at position k; the handle tells the
\* entries of a listing apart
ListingEntry(c, k) ==
    JO([Id |-> JS(Handle(k)), Type |-> JS(c.type), Name |-> JS(c.name),
        ProviderIds |-> c.ids])

FindCalls ==
    {[op |-> "find", items |-> <<>>, tmdb_id |-> i, media_type |-> k, title |-> t,
      done |-> FALSE, result |-> Absent] :
        i \in ItemIds, k \in {"movie", "tv"}, t \in Titles}

InitFind ==
    /\ Parked
    /\ call \in FindCalls

\* the library the call will list gets one more entry
AddEntry ==
    /\ call.op = "find"
    /\ ~call.done
    /\ Len(call.items) < MaxListing
    /\ \E c \in Candidates :
          call' = [call EXCEPT !.items = Append(@, ListingEntry(c, Len(@) + 1))]
    /\ UNCHANGED taskVars

\* lines 119-193 on the listing get_library_items returned
FindCall ==
    /\ call.op = "find"
    /\ ~call.done
    /\ call' = [call EXCEPT
                  !.done = TRUE,
                  !.result = FindItemIn(call.items, call.tmdb_id, call.media_type,
                                        call.title)]
    /\ UNCHANGED taskVars

NextFind == AddEntry \/ FindCall

SpecFind == InitFind /\ [][NextFind]_vars

----------------------------------------------------------------------------
(* Properties of find_item_by_tmdb_id *)

\* entry k of the call's listing is of the kind asked for
SameKind(k) ==
    TypeMatches(call.media_type, Lower(Get(call.items[k], "Type", JS(<<>>)).s))

\* entry k matches the id as the lookup reads its map (lines 141-151): the
\* value under the first spelling present equals the id, as text or as integer
IdMatch(k) ==
    LET p == FirstProviderKey(Get(call.items[k], "ProviderIds", JO(EmptyMap)), 1)
    IN  SameKind(k) /\ Truthy(p) /\ IdCompare(p, call.tmdb_id) = "match"

\* entry k holds the id, as text or as integer, under some supported spelling
HoldsId(k) ==
    LET pids == Get(call.items[k], "ProviderIds", JO(EmptyMap)).m
    IN  /\ SameKind(k)
        /\ \E n \in 1..Len(ProviderKeys) :
              /\ ProviderKeys[n] \in DOMAIN pids
              /\ pids[ProviderKeys[n]].t \in {"int", "str"}
              /\ IdCompare(pids[ProviderKeys[n]], call.tmdb_id) = "match"

Normalized(s) == Strip(Lower(s))

\* the normalized name of entry k equals the normalized title
ExactTitle(k) ==
    SameKind(k) /\ Normalized(Get(call.items[k], "Name", JS(<<>>)).s) = Normalized(call.title)

\* the normalized name of entry k equals, contains or is contained in the
\* normalized title
OverlapTitle(k) ==
    LET n == Normalized(Get(call.items[k], "Name", JS(<<>>)).s)
        t == Normalized(call.title)
    IN  SameKind(k) /\ (n = t \/ IsSubstring(t, n) \/ IsSubstring(n, t))

Returned == call.op = "find" /\ call.done
Entries == DOMAIN call.items

\* C11: when one entry of the kind asked for matches by provider id and
\* another one matches by title only, in either order, the lookup returns the
\* first entry that matches by provider id
C11_IdMatchBeforeTitleMatch ==
    Returned =>
        (\A a, b \in Entries :
            (a # b /\ IdMatch(a) /\ OverlapTitle(b) /\ ~IdMatch(b))
                => call.result = call.items[MinOf({k \in Entries : IdMatch(k)})])

\* C11 happens: the title match is listed first, the id match second, and the
\* second is returned
C11_Witness ==
    /\ Returned
    /\ Len(call.items) = 2
    /\ OverlapTitle(1) /\ ~IdMatch(1) /\ ~HoldsId(1)
    /\ IdMatch(2) /\ ~OverlapTitle(2)
    /\ call.result = call.items[2]

\* C12: when no entry of the kind holds the id and some entry of the kind
\* matches by title, the lookup returns an entry that matches by title,
\* whatever the provider ids of the entries are
C12_TitleFallback ==
    (Returned /\ (\A k \in Entries : ~HoldsId(k)) /\ (\E k \in Entries : OverlapTitle(k)))
        => \E k \in Entries : OverlapTitle(k) /\ call.result = call.items[k]

\* C13: when no entry matches by provider id and the lookup returns an entry,
\* it is the first entry with an exact title if there is one, and the first
\* entry with an overlapping title otherwise
C13_ExactTitleFirst ==
    (Returned /\ call.result # None /\ \A k \in Entries : ~IdMatch(k)) =>
        call.result =
            IF \E k \in Entries : ExactTitle(k)
            THEN call.items[MinOf({k \in Entries : ExactTitle(k)})]
            ELSE call.items[MinOf({k \in Entries : OverlapTitle(k)})]

\* C13 happens: an entry whose name only contains the title is listed before
\* one with the exact title, and the second is returned
C13_Witness ==
    /\ Returned
    /\ Len(call.items) = 2
    /\ OverlapTitle(1) /\ ~ExactTitle(1)
    /\ ExactTitle(2)
    /\ call.result = call.items[2]

\* C14: the first entry of the kind that holds the id, as text or as integer,
\* under any of the supported spellings is returned, whatever its map holds
\* under the other spellings
C14_AnySpelling ==
    (Returned /\ \E k \in Entries : HoldsId(k))
        => call.result = call.items[MinOf({k \in Entries : HoldsId(k)})]

----------------------------------------------------------------------------
(* is_watched on a library that lists the item asked for, with every       *)
(* answer of the per-item fetch and of the episode fetch, and episode      *)
(* lists of at most MaxEpisodes episodes                                   *)

MaxEpisodes == 3

\* The user-state payloads: empty, each of the four signs of a played item
\* alone, all four unset, and null
Payloads ==
    {JO(EmptyMap),
     JO([Played |-> JB(TRUE)]),
     JO([Played |-> JB(FALSE), PlayCount |-> JI(2)]),
     JO([Played |-> JB(FALSE), PlayCount |-> JI(0), PlayedPercentage |-> JI(100)]),
     JO([Played |-> JB(FALSE), LastPlayedDate |-> JS(<<"d">>)]),
     JO([Played |-> JB(FALSE), PlayCount |-> JI(0), PlayedPercentage |-> JI(0),
         LastPlayedDate |-> None]),
     None}

\* What a request gets: a transport error, an error status, or an answer
Raises == [raises |-> TRUE, status |-> 0]
Status(n) == [raises |-> FALSE, status |-> n]

\* GET /Items/{id}, lines 230-238
FreshAnswers ==
    {[a |-> Raises, user_data |-> None], [a |-> Status(404), user_data |-> None]}
    \cup {[a |-> Status(200), user_data |-> p] : p \in Payloads}

\* GET /Shows/{id}/Episodes, lines 311-319, before any episode is listed
EpisodeAnswers == {Raises, Status(500), Status(200)}

\* the watchlist item of each kind (the fixtures' first movie and series)
ItemOfKind(k) == IF k = "movie" THEN 1 ELSE 2

WatchedCalls ==
    {[op |-> "watched", media_type |-> k, embedded |-> e, users |-> u, fresh |-> f,
      episodes |-> ea, episode_list |-> <<>>, done |-> FALSE, result |-> Absent] :
        k \in {"movie", "tv"}, e \in Payloads, u \in {<<>>, Users},
        f \in FreshAnswers, ea \in EpisodeAnswers}

\* the server of a call
CallServer(c) ==
    LET h == Handle(ItemOfKind(c.media_type))
    IN  [up |-> TRUE, users |-> c.users,
         items |-> <<Entry(ItemOfKind(c.media_type), c.embedded)>>,
         total |-> 1, page |-> PageLimit, fails |-> 0,
         fresh |-> IF c.fresh.a.raises THEN EmptyMap
                   ELSE (h :> [status |-> c.fresh.a.status,
                               body |-> JO([Id |-> JS(h), UserData |-> c.fresh.user_data])]),
         episodes |-> IF c.episodes.raises THEN EmptyMap
                      ELSE (h :> [status |-> c.episodes.status, items |-> c.episode_list])]

InitWatched ==
    /\ Parked
    /\ call \in WatchedCalls

\* the series gets one more episode
AddEpisode ==
    /\ call.op = "watched"
    /\ ~call.done
    /\ call.media_type = "tv"
    /\ call.episodes = Status(200)
    /\ Len(call.episode_list) < MaxEpisodes
    /\ \E played \in BOOLEAN :
          call' = [call EXCEPT !.episode_list = Append(@, Episode(played))]
    /\ UNCHANGED taskVars

\* JellyfinClient.is_watched, lines 200-342, of a new client
WatchedCall ==
    /\ call.op = "watched"
    /\ ~call.done
    /\ call' = [call EXCEPT
                  !.done = TRUE,
                  !.result = IsWatched(CallServer(call), None,
                                       ItemOfKind(call.media_type), call.media_type,
                                       TitleOf(ItemOfKind(call.media_type)))]
    /\ UNCHANGED taskVars

NextWatched == AddEpisode \/ WatchedCall

SpecWatched == InitWatched /\ [][NextWatched]_vars

----------------------------------------------------------------------------
(* Properties of is_watched *)

Answered == call.op = "watched" /\ call.done

\* the client resolves a remote user
UserResolved == Len(call.users) > 0

\* the per-item fetch gives no payload: the request raises, the status is not
\* 200, or the body's payload cannot be read
FreshFails ==
    \/ call.fresh.a.raises
    \/ call.fresh.a.status # 200
    \/ call.fresh.user_data.t # "obj"

\* the best payload there is: the fetched one, or the one of the listing entry
\* when no user is resolved or the fetch fails
BestPayload ==
    IF UserResolved /\ ~FreshFails THEN call.fresh.user_data ELSE call.embedded

\* one of the four signs of a played item holds on the payload
AnySign(p) ==
    \/ Truthy(Get(p, "Played", JB(FALSE)))
    \/ Get(p, "PlayCount", JI(0)).n > 0
    \/ Get(p, "PlayedPercentage", JI(0)).n >= 100
    \/ Get(p, "LastPlayedDate", None) # None

\* the episode fetch answers with a list
EpisodesFetched == UserResolved /\ call.episodes = Status(200)

AllEpisodesPlayed ==
    \A k \in 1..Len(call.episode_list) : call.episode_list[k].m.UserData.m.Played.b

\* the series derivation on payload p: the series flag, else all the episodes
\* of a fetched list that is not empty
SeriesSign(p) ==
    \/ Truthy(Get(p, "Played", JB(FALSE)))
    \/ EpisodesFetched /\ Len(call.episode_list) > 0 /\ AllEpisodesPlayed

\* C15: a movie is watched if and only if one of the four signs holds on the
\* best payload there is, whichever way that payload was obtained
C15_MovieWatchedAnySign ==
    (Answered /\ call.media_type = "movie" /\ BestPayload.t = "obj")
        => call.result = JB(AnySign(BestPayload))

\* C16: a series is watched if its payload has the played flag; otherwise if
\* and only if the episode list was fetched, is not empty and has every episode
\* played; without episodes or without an answer it is the flag (false)
C16_SeriesWatched ==
    (Answered /\ call.media_type = "tv" /\ BestPayload.t = "obj")
        => call.result = JB(SeriesSign(BestPayload))

\* C16 happens: a series without the flag whose fetched episodes are played
\* but for one is not watched
C16_Witness ==
    /\ Answered
    /\ call.media_type = "tv"
    /\ BestPayload.t = "obj"
    /\ ~Truthy(Get(BestPayload, "Played", JB(FALSE)))
    /\ EpisodesFetched
    /\ Len(call.episode_list) = 3
    /\ Cardinality({k \in 1..3 : call.episode_list[k].m.UserData.m.Played.b}) = 2
    /\ call.result = JB(FALSE)

----------------------------------------------------------------------------
(* get_library_items on libraries of up to MaxPages full pages and one     *)
(* item.  The items of a library are numbered in the server's order.       *)

MaxPages == 2

LibrarySizes == 0..(MaxPages * PageLimit + 1)

\* what the server puts in one page at most: the Limit asked for, or half of it
PageSizes == {PageLimit, PageLimit \div 2}

ListCalls ==
    {[op |-> "list", size |-> n, page |-> p, fails |-> f, done |-> FALSE,
      result |-> <<>>] :
        n \in LibrarySizes, p \in PageSizes, f \in 0..(MaxPages + 1)}

\* the server of a call: it reports the size of its library as the total
ListServer(c) ==
    [up |-> TRUE, users |-> Users, items |-> [k \in 1..c.size |-> k],
     total |-> c.size, page |-> c.page, fails |-> c.fails,
     fresh |-> EmptyMap, episodes |-> EmptyMap]

InitList ==
    /\ Parked
    /\ call \in ListCalls

\* JellyfinClient.get_library_items, lines 60-111
ListCall ==
    /\ call.op = "list"
    /\ ~call.done
    /\ call' = [call EXCEPT !.done = TRUE,
                            !.result = GetLibraryItems(ListServer(call))]
    /\ UNCHANGED taskVars

NextList == ListCall

SpecList == InitList /\ [][NextList]_vars

----------------------------------------------------------------------------
(* Properties of get_library_items *)

Listed == call.op = "list" /\ call.done

\* C18: when no request fails, the call returns every item of the library
\* once, in the server's order, whatever the server puts in one page
C18_ListsEveryItem ==
    (Listed /\ call.fails = 0) => call.result = [k \in 1..call.size |-> k]

\* a request of the call raised a transport error: the first one, or a later
\* one that full pages before it made necessary
RequestFailed ==
    \/ call.fails = 1
    \/ /\ call.fails > 1
       /\ call.page = PageLimit
       /\ call.size > (call.fails - 1) * PageLimit

\* C19: when a request of the call raises a transport error, on whichever
\* page, the call returns the empty sequence
C19_EmptyOnTransportError ==
    (Listed /\ RequestFailed) => call.result = <<>>

----------------------------------------------------------------------------
(* The periodic task left alone: no cancellation and no request.  Every    *)
(* await of the task ends (the client's requests have a timeout,           *)
(* jellyfin_client.py:21, and the sleep is finite), and the event loop     *)
(* resumes the task then: a step of the task that can be taken is taken    *)

NextSched ==
    \/ SchedCall
    \/ Load
    \/ Find
    \/ Watched
    \/ Commit
    \/ Except
    \/ Finally
    \/ SchedAfter
    \/ SchedWake

SpecSched == Init /\ [][NextSched]_vars /\ WF_vars(NextSched)

\* C20: a call that raises leads to the wait with its error logged, never to
\* the end of the loop; the step after any call is the wait, the step after
\* the wait is the next call; and calls are made again and again
C20_SchedulerResilient ==
    /\ [][pc = "returned" => pc' = "sleep"]_vars
    /\ [][pc = "sleep" => pc' = "tick"]_vars
    /\ (pc = "returned" /\ exc # "none") ~> (pc = "sleep" /\ "periodic_error" \in printed)
    /\ (pc = "sleep") ~> (pc = "load")
    /\ []<>(pc = "load")

\* C20 happens: a call has raised and the loop is in its wait
C20_Witness == pc = "sleep" /\ "periodic_error" \in printed

----------------------------------------------------------------------------
(* find_item_by_tmdb_id: the kind of what it returns *)

\* C30: an entry the lookup returns is of the kind asked for: of type movie
\* for "movie", of type series for "tv", whichever way it matched
C30_SameKindOnly ==
    (Returned /\ call.result # None /\ ~IsRaise(call.result)) =>
        LET t == Lower(Get(call.result, "Type", JS(<<>>)).s)
        IN  /\ call.media_type = "movie" => t = <<"m", "o", "v", "i", "e">>
            /\ call.media_type = "tv" => t = <<"s", "e", "r", "i", "e", "s">>

\* C30 happens: a series is asked for by the id and the title a listed movie
\* has, and the series listed after the movie is returned
C30_Witness ==
    /\ Returned
    /\ call.media_type = "tv"
    /\ call.tmdb_id = 1
    /\ Len(call.items) = 2
    /\ Get(call.items[1], "Type", None) = JS(RemoteType(1))
    /\ Get(call.items[1], "ProviderIds", None) = JO([Tmdb |-> JI(1)])
    /\ Normalized(Get(call.items[1], "Name", JS(<<>>)).s) = Normalized(call.title)
    /\ Get(call.items[2], "Type", None) = JS(RemoteType(2))
    /\ call.result = call.items[2]

----------------------------------------------------------------------------
(* run_periodic_sync: the order of calls and waits, and its cancellation *)

\* C21: the loop begins with a call; a wait begins only when a call has
\* ended, a call only at the loop's entry or when a wait has ended, and the
\* loop is at its entry again only after one wait: calls and waits alternate
C21_CallsAndWaitsAlternate ==
    /\ pc = "tick"
    /\ [][(pc # "sleep" /\ pc' = "sleep") => pc = "returned"]_vars
    /\ [][(pc # "load" /\ pc' = "load") => pc = "tick"]_vars
    /\ [][(pc # "tick" /\ pc' = "tick") => pc = "sleep"]_vars
    /\ [][pc = "tick" => pc' = "load"]_vars

\* C21 happens: a call has been made, its wait is over and the next call is due
C21_Witness == pc = "tick" /\ "completed" \in printed

\* C22: once the loop's task has been cancelled, in a call or in the wait,
\* no call begins
C22_NoCallAfterCancel ==
    /\ [][exc = "cancelled" => (pc' # "load" /\ pc' # "tick" /\ exc' = "cancelled")]_vars
    /\ [](exc = "cancelled" => pc \in {"finally", "returned", "stopped"})

\* C22 happens: the task was cancelled within a call and the loop has ended
C22_Witness ==
    /\ pc = "stopped"
    /\ exc = "cancelled"
    /\ printed \cap {"completed", "periodic_error"} = {}

\* C23: a call in flight goes on with its items up to its commit, whatever
\* arrives while it waits for the server
C23_CancelOnlyBetweenCalls ==
    [][(pc \in {"find", "watched"}) => (pc' \in {"find", "watched", "commit"})]_vars

----------------------------------------------------------------------------
(* The other writers of the storage (main.py).  The queue handlers have no *)
(* await: each runs from its query to its commit without interleaving      *)

\* models.py:11-24: the attributes the mapped class WatchlistItem has
Columns ==
    {"id", "title", "media_type", "tmdb_id", "poster_path", "overview",
     "release_date", "is_available", "is_watched", "watched_manually_set",
     "queue_order", "jellyfin_item_id", "created_at", "updated_at"}

MaxOf(S) == CHOOSE x \in S : \A y \in S : x >= y

\* main.py:873, func.max(queue_order): None when no row has one
MaxOrder(table) ==
    LET orders == {table[i].queue_order.n :
                      i \in {j \in DOMAIN table : table[j].queue_order # None}}
    IN  IF orders = {} THEN None ELSE JI(MaxOf(orders))

\* add_to_queue with line 873 counting the queued rows instead
AddToQueueByCount(table, i) ==
    IF table[i].queue_order # None THEN table
    ELSE [table EXCEPT ![i].queue_order =
            JI(Cardinality({j \in DOMAIN table : table[j].queue_order # None}) + 1)]

\* add_to_queue, main.py:864-875 (the item exists)
AddToQueueUpdate(table, i) ==
    IF table[i].queue_order # None THEN table
    ELSE LET max_order == MaxOrder(table)
             base == IF Truthy(max_order) THEN max_order.n ELSE 0
         IN  [table EXCEPT ![i].queue_order = JI(base + 1)]

\* remove_from_queue without lines 899-905: the rows behind keep their orders
RemoveFromQueueNoShift(table, i) ==
    [table EXCEPT ![i].queue_order = None]

\* remove_from_queue, main.py:888-905 (the item exists)
RemoveFromQueueUpdate(table, i) ==
    IF table[i].queue_order = None THEN table
    ELSE LET old_order == table[i].queue_order.n
         IN  [j \in DOMAIN table |->
                IF j = i THEN [table[j] EXCEPT !.queue_order = None]
                ELSE IF table[j].queue_order # None /\ table[j].queue_order.n > old_order
                THEN [table[j] EXCEPT !.queue_order = JI(@.n - 1)]
                ELSE table[j]]

\* reorder_queue, main.py:919-924: ids that are not stored are passed over
ReorderUpdate(table, item_orders) ==
    [j \in DOMAIN table |->
        IF j \in DOMAIN item_orders
        THEN [table[j] EXCEPT !.queue_order = JI(item_orders[j])]
        ELSE table[j]]

\* the requests' orders: item id -> new order
ItemOrders == UNION {[S -> 1..MaxItems] : S \in (SUBSET ItemIds) \ {{}}}

AddToQueue(i) ==
    /\ pc \in EnvPoints
    /\ i \in DOMAIN db
    /\ db' = AddToQueueUpdate(db, i)
    /\ UNCHANGED <<remote, pc, items, idx, session, loaded, jellyfin_item,
                   user_id, exc, ret, printed, outcome, twice, call, held, elsewhere>>

RemoveFromQueue(i) ==
    /\ pc \in EnvPoints
    /\ i \in DOMAIN db
    /\ db' = RemoveFromQueueUpdate(db, i)
    /\ UNCHANGED <<remote, pc, items, idx, session, loaded, jellyfin_item,
                   user_id, exc, ret, printed, outcome, twice, call, held, elsewhere>>

ReorderQueue ==
    /\ pc \in EnvPoints
    /\ \E item_orders \in ItemOrders : db' = ReorderUpdate(db, item_orders)
    /\ UNCHANGED <<remote, pc, items, idx, session, loaded, jellyfin_item,
                   user_id, exc, ret, printed, outcome, twice, call, held, elsewhere>>

\* backfill_genres_on_startup (main.py:98-179) and backfill_genres
\* (main.py:611-692): the query of lines 109-114 and 623-628 reads the class
\* attributes genres, runtime, rating and language; a class without one of
\* them raises AttributeError there, before any row is loaded, and the run
\* ends in its handler (lines 174-179, 685-692) with nothing written
BackfillLoads == {"genres", "runtime", "rating", "language"} \subseteq Columns

Backfill ==
    /\ host = "serving"
    /\ pc \in EnvPoints
    /\ backfill.pc = "idle"
    /\ IF BackfillLoads
       THEN backfill' = [pc |-> "loaded"]
       ELSE backfill' = [pc |-> "failed"]
    /\ UNCHANGED <<db, remote, pc, items, idx, session, loaded, jellyfin_item,
                   user_id, exc, ret, printed, outcome, twice, call, held, adds, host>>

\* The server of this specification: it has the items, played, or is down
StoreRemotes == {"seen", "down"}

StoreFind == \E r \in StoreRemotes : FindStep(r)

StoreWatched == \E r \in StoreRemotes : WatchedStep(r)

\* The periodic task among the requests that write the storage
NextStore ==
    \/ SchedCall
    \/ Load
    \/ StoreFind
    \/ StoreWatched
    \/ Commit
    \/ Except
    \/ Finally
    \/ SchedAfter
    \/ SchedWake
    \/ \E i \in ItemIds : Toggle(i)
    \/ \E i \in ItemIds : AddToQueue(i)
    \/ \E i \in ItemIds : RemoveFromQueue(i)
    \/ ReorderQueue
    \/ Backfill

SpecStore == Init /\ [][NextStore]_vars

\* a step of the periodic task (the requests leave its position alone)
TaskStep == pc' # pc \/ idx' # idx

C25_OverrideMonotone ==
    /\ \A i \in DOMAIN db : ~db[i].watched_manually_set
    /\ [][\A i \in DOMAIN db :
             db[i].watched_manually_set =>
                (i \in DOMAIN db' /\ db'[i].watched_manually_set)]_vars
    /\ [][\A i \in DOMAIN db :
             (~db[i].watched_manually_set /\ db'[i].watched_manually_set) =>
                (~TaskStep /\ db'[i].is_watched # db[i].is_watched
                 /\ \A j \in DOMAIN db \ {i} : db'[j] = db[j])]_vars
    /\ [][\A i \in DOMAIN db :
             (~TaskStep /\ db'[i].is_watched # db[i].is_watched) =>
                db'[i].watched_manually_set]_vars

\* C25 happens: a row was toggled, then queued, a backfill run has ended and a
\* pass has committed since
C25_Witness ==
    /\ pc = "sleep"
    /\ "completed" \in printed
    /\ backfill.pc = "failed"
    /\ \E i \in DOMAIN db :
          db[i].watched_manually_set /\ db[i].queue_order # None /\ db[i].is_available

----------------------------------------------------------------------------
(* add_to_watchlist (main.py:492-608).  The handler awaits the metadata    *)
(* provider (lines 518-520, 552) and the media server (lines 557, 563,     *)
(* 576); other requests run during these awaits                            *)

MaxAdds == 2

\* main.py:579-593: the keywords WatchlistItem is constructed with
CreateKeywords ==
    {"tmdb_id", "title", "media_type", "poster_path", "overview", "release_date",
     "is_available", "is_watched", "jellyfin_item_id", "genres", "runtime",
     "rating", "language"}

\* main.py:501 without its filter: no row is ever found
ExistingNever(table, tmdb_id) == FALSE

\* main.py:501: a row with this tmdb_id is stored
Existing(table, tmdb_id) == \E j \in DOMAIN table : table[j].tmdb_id = tmdb_id

\* main.py:579-596: the constructor of the mapped class takes the keywords
\* that name attributes of the class and raises TypeError for any other; the
\* commit inserts the row unless the unique index on tmdb_id (models.py:14)
\* refuses it.  The result is the new table, or Raise
CreateItem(table, keywords, row) ==
    IF ~(keywords \subseteq Columns) THEN Raise
    ELSE IF Existing(table, row.tmdb_id) THEN Raise
    ELSE Append(table, row)

\* lines 501-512: the request for the item of tmdb_id i comes in
AddBegin(i) ==
    /\ Len(adds) < MaxAdds
    /\ adds' = Append(adds,
          IF Existing(db, i)
          THEN [pc |-> "done", status |-> 400, tmdb_id |-> i, remote |-> "none",
                failed |-> FALSE, is_available |-> FALSE, is_watched |-> FALSE,
                jellyfin_item_id |-> None, user_id |-> None]
          ELSE [pc |-> "details", status |-> 0, tmdb_id |-> i, remote |-> "none",
                failed |-> FALSE, is_available |-> FALSE, is_watched |-> FALSE,
                jellyfin_item_id |-> None, user_id |-> None])
    /\ UNCHANGED <<db, remote, pc, items, idx, session, loaded, jellyfin_item,
                   user_id, exc, ret, printed, outcome, twice, call, held, backfill, host>>

\* lines 515-552: the details come or the fetch raises (line 548); both ways
\* the locals genres, runtime, rating and language go to the constructor and
\* decide nothing else
AddDetails(s) ==
    /\ s \in DOMAIN adds
    /\ adds[s].pc = "details"
    /\ adds' = [adds EXCEPT ![s].pc = "find"]
    /\ UNCHANGED <<db, remote, pc, items, idx, session, loaded, jellyfin_item,
                   user_id, exc, ret, printed, outcome, twice, call, held, backfill, host>>

\* lines 557-561 and 565-574: the lookup returns or raises
AddFindStep(s, r) ==
    /\ s \in DOMAIN adds
    /\ adds[s].pc = "find"
    /\ LET i == adds[s].tmdb_id
           found == FindItem(ServerOf(r), i, KindOf(i), TitleOf(i))
       IN  adds' = [adds EXCEPT ![s] =
              IF IsRaise(found)
              THEN [@ EXCEPT !.pc = "create", !.remote = r, !.failed = TRUE]
              ELSE IF found # None
              THEN [@ EXCEPT !.pc = "watched", !.remote = r,
                             !.user_id = GetUserId(ServerOf(r), None),
                             !.is_available = TRUE,
                             !.jellyfin_item_id = Get(found, "Id", None)]
              ELSE [@ EXCEPT !.pc = "create", !.remote = r]]
    /\ UNCHANGED <<db, remote, pc, items, idx, session, loaded, jellyfin_item,
                   user_id, exc, ret, printed, outcome, twice, call, held, backfill, host>>

AddFind(s) == \E r \in RemoteStates : AddFindStep(s, r)

\* lines 563-564 and 567-574: is_watched returns or raises
AddWatchedStep(s, r) ==
    /\ s \in DOMAIN adds
    /\ adds[s].pc = "watched"
    /\ LET i == adds[s].tmdb_id
           is_watched == IsWatched(ServerOf(r), adds[s].user_id, i, KindOf(i), TitleOf(i))
       IN  adds' = [adds EXCEPT ![s] =
              IF IsRaise(is_watched)
              THEN [@ EXCEPT !.pc = "create", !.remote = r, !.failed = TRUE]
              ELSE [@ EXCEPT !.pc = "create", !.remote = r, !.is_watched = is_watched.b]]
    /\ UNCHANGED <<db, remote, pc, items, idx, session, loaded, jellyfin_item,
                   user_id, exc, ret, printed, outcome, twice, call, held, backfill, host>>

AddWatched(s) == \E r \in RemoteStates : AddWatchedStep(s, r)

\* lines 576-608: the client is closed, the row is made and committed, or
\* the handler of line 603 rolls back and answers 500
AddCreate(s) ==
    /\ s \in DOMAIN adds
    /\ adds[s].pc = "create"
    /\ LET i == adds[s].tmdb_id
           row == [NewRow(i) EXCEPT !.is_available = adds[s].is_available,
                                    !.is_watched = adds[s].is_watched,
                                    !.jellyfin_item_id = adds[s].jellyfin_item_id]
           made == CreateItem(db, CreateKeywords, row)
       IN  IF IsRaise(made)
           THEN /\ adds' = [adds EXCEPT ![s].pc = "done", ![s].status = 500]
                /\ db' = db
           ELSE /\ adds' = [adds EXCEPT ![s].pc = "done", ![s].status = 200]
                /\ db' = made
    /\ UNCHANGED <<remote, pc, items, idx, session, loaded, jellyfin_item,
                   user_id, exc, ret, printed, outcome, twice, call, held, backfill, host>>

\* The watchlist holds item 1 or nothing when the requests come
InitAdd ==
    /\ db \in {<<>>, <<NewRow(1)>>}
    /\ remote = "none"
    /\ pc = "sleep"
    /\ items = <<>>
    /\ idx = 0
    /\ session = NoSession
    /\ loaded = NoSession
    /\ jellyfin_item = None
    /\ user_id = None
    /\ exc = "none"
    /\ ret = Absent
    /\ printed = {}
    /\ outcome = NoOutcome
    /\ held = {}
    /\ twice = NoTwice
    /\ call = NoCall
    /\ adds = NoAdds
    /\ backfill = NoBackfill
    /\ host = "serving"

NextAdd ==
    \/ \E i \in ItemIds : AddBegin(i)
    \/ \E s \in 1..MaxAdds : AddDetails(s)
    \/ \E s \in 1..MaxAdds : AddFind(s)
    \/ \E s \in 1..MaxAdds : AddWatched(s)
    \/ \E s \in 1..MaxAdds : AddCreate(s)

SpecAdd == InitAdd /\ [][NextAdd]_vars

\* a row with this tmdb_id is stored
Stored(i) == \E j \in DOMAIN db : db[j].tmdb_id = i

\* the stored row of this tmdb_id is as a new item is to be: not available,
\* not watched, not marked, without handle
StoredNew(i) ==
    \E j \in DOMAIN db :
        /\ db[j].tmdb_id = i
        /\ ~db[j].is_available
        /\ ~db[j].is_watched
        /\ ~db[j].watched_manually_set
        /\ db[j].jellyfin_item_id = None

\* C26: a request that is not refused as a duplicate makes its row with
\* is_available false, is_watched false and no handle, whatever the server
\* answered, and when it has ended the row is stored so
C26_CreatedWithDefaults ==
    \A s \in DOMAIN adds :
        /\ adds[s].pc = "create" =>
              (~adds[s].is_available /\ ~adds[s].is_watched
               /\ adds[s].jellyfin_item_id = None)
        /\ (adds[s].pc = "done" /\ adds[s].status # 400) => StoredNew(adds[s].tmdb_id)

\* C27: a request whose lookup or whose is_watched raised, and which no other
\* request competes with, makes its row with is_available false, ends with
\* success, and the row is stored with is_available false
C27_CheckFailureStillAdds ==
    \A s \in DOMAIN adds :
        (adds[s].failed /\ \A t \in DOMAIN adds \ {s} : adds[t].tmdb_id # adds[s].tmdb_id) =>
            /\ adds[s].pc = "create" => ~adds[s].is_available
            /\ adds[s].pc = "done" =>
                  /\ adds[s].status = 200
                  /\ \E j \in DOMAIN db :
                        db[j].tmdb_id = adds[s].tmdb_id /\ ~db[j].is_available

----------------------------------------------------------------------------
(* lifespan (main.py:182-210): the storage is set up, one pass is awaited, *)
(* the tasks are created, requests are served; at shutdown the periodic    *)
(* task is cancelled and awaited                                           *)

\* lines 206-209 left out: lifespan ends without awaiting the cancelled task
HostDownNoAwait ==
    /\ host = "shutdown"
    /\ host' = "down"
    /\ UNCHANGED <<db, remote, pc, items, idx, session, loaded, jellyfin_item,
                   user_id, exc, ret, printed, outcome, twice, call, held, adds, backfill>>

\* lines 206-210: await sync_task returns when the task has ended; its
\* CancelledError is passed over
HostDown ==
    /\ host = "shutdown"
    /\ pc = "stopped"
    /\ host' = "down"
    /\ UNCHANGED <<db, remote, pc, items, idx, session, loaded, jellyfin_item,
                   user_id, exc, ret, printed, outcome, twice, call, held, adds, backfill>>

\* lines 186-192: init_db() creates the tables, then the first pass is called;
\* when init_db() raises the application does not start
HostInitDb(ok) ==
    /\ host = "start"
    /\ IF ok
       THEN /\ host' = "initial"
            /\ BeginPass
       ELSE /\ host' = "failed"
            /\ UNCHANGED <<db, remote, pc, items, idx, session, loaded,
                           jellyfin_item, user_id, exc, ret, printed, outcome, held>>
    /\ UNCHANGED <<twice, call, adds, backfill>>

HostInit == \E ok \in BOOLEAN : HostInitDb(ok)

\* lines 193-203: the first pass returned or raised (except Exception, line
\* 194); the backfill task and the periodic task are created and the
\* application serves
HostStartLoop ==
    /\ host = "initial"
    /\ pc = "returned"
    /\ host' = "serving"
    /\ pc' = "tick"
    /\ exc' = "none"
    /\ printed' = printed \cup {IF exc = "none" THEN "initial_completed" ELSE "initial_failed"}
    /\ outcome' = NoOutcome
    /\ UNCHANGED <<db, remote, items, idx, session, loaded, jellyfin_item,
                   user_id, ret, twice, call, held, adds, backfill>>

InitHost ==
    /\ db = [i \in ItemIds |-> NewRow(i)]
    /\ remote = "none"
    /\ pc = "absent"
    /\ items = <<>>
    /\ idx = 0
    /\ session = NoSession
    /\ loaded = NoSession
    /\ jellyfin_item = None
    /\ user_id = None
    /\ exc = "none"
    /\ ret = Absent
    /\ printed = {}
    /\ outcome = NoOutcome
    /\ held = {}
    /\ twice = NoTwice
    /\ call = NoCall
    /\ adds = NoAdds
    /\ backfill = NoBackfill
    /\ host = "start"

NextHost ==
    \/ HostInit
    \/ Load
    \/ Find
    \/ Watched
    \/ Commit
    \/ Except
    \/ Finally
    \/ HostStartLoop
    \/ SchedCall
    \/ SchedAfter
    \/ SchedWake
    \/ Backfill
    \/ Cancel
    \/ HostDown

SpecHost == InitHost /\ [][NextHost]_vars

\* the pass is at one of its steps
InPass == pc \in {"load", "find", "watched", "commit", "except", "finally"}

\* C29: no pass and no periodic task before init_db() has returned; the
\* periodic task exists only once the first pass is over; and when the
\* shutdown is complete the task has ended, and neither the storage nor the
\* task's position nor the server it last called changes any more
C29_LifecycleOrder ==
    /\ [](host \in {"start", "failed"} => pc = "absent")
    /\ [](host = "initial" => (InPass \/ pc = "returned"))
    /\ [](host = "down" => pc = "stopped")
    /\ [][host = "down" => UNCHANGED <<db, pc, remote, session>>]_vars

\* C29 happens: the shutdown came while a pass of the periodic task was in
\* flight, and it is complete
C29_Witness ==
    /\ host = "down"
    /\ exc = "cancelled"
    /\ printed \cap {"completed", "periodic_error"} = {}

----------------------------------------------------------------------------
(* The availability and the handle of a row *)

\* a row that is not available holds no handle
NoStaleHandle(row) == ~row.is_available => row.jellyfin_item_id = None

\* C31: at every point of every pass (items that raise included), toggles in
\* between, a stored row with is_available false has jellyfin_item_id None,
\* and so has every row of the pass's session
C31_UnavailableHasNoHandle ==
    /\ \A i \in DOMAIN db : NoStaleHandle(db[i])
    /\ \A i \in DOMAIN session : NoStaleHandle(session[i])

\* C31 happens: a pass that loaded a row with a handle found no match for it
\* and is about to commit the row as unavailable, after another item raised
C31_Witness ==
    /\ pc = "commit"
    /\ "item_error" \in printed
    /\ \E i \in DOMAIN session :
          /\ loaded[i].jellyfin_item_id # None
          /\ ~session[i].is_available
          /\ outcome[i] = "notfound"

----------------------------------------------------------------------------
(* The requests that write stored rows, without a pass in between: the     *)
(* periodic task sleeps.  The watchlist starts as a pass has left it        *)

\* the rows of item i after a pass over a new row: not found, found and not
\* played, found and played (sync.py:22-33)
PassedRows(i) ==
    {NewRow(i),
     [NewRow(i) EXCEPT !.is_available = TRUE, !.jellyfin_item_id = JS(Handle(i))],
     [NewRow(i) EXCEPT !.is_available = TRUE, !.jellyfin_item_id = JS(Handle(i)),
                       !.is_watched = TRUE]}

\* the watchlist after a pass over new rows with the server in one state:
\* no row found, every row found and not played, every row found and played
PassedTables ==
    {t \in [ItemIds -> UNION {PassedRows(i) : i \in ItemIds}] :
        /\ \A i \in ItemIds : t[i] \in PassedRows(i)
        /\ \A i, j \in ItemIds : /\ t[i].is_available = t[j].is_available
                                  /\ t[i].is_watched = t[j].is_watched}

InitRequests ==
    /\ db \in PassedTables
    /\ remote = "none"
    /\ pc = "sleep"
    /\ items = <<>>
    /\ idx = 0
    /\ session = NoSession
    /\ loaded = NoSession
    /\ jellyfin_item = None
    /\ user_id = None
    /\ exc = "none"
    /\ ret = Absent
    /\ printed = {}
    /\ outcome = NoOutcome
    /\ held = {}
    /\ twice = NoTwice
    /\ call = NoCall
    /\ adds = NoAdds
    /\ backfill = NoBackfill
    /\ host = "serving"

NextRequests ==
    \/ \E i \in ItemIds : Toggle(i)
    \/ \E i \in ItemIds : AddToQueue(i)
    \/ \E i \in ItemIds : RemoveFromQueue(i)
    \/ ReorderQueue
    \/ Backfill

SpecRequests == InitRequests /\ [][NextRequests]_vars

\* the columns the pass reconciles and the mark of the toggle
Reconciled4(row) ==
    <<row.is_available, row.is_watched, row.watched_manually_set, row.jellyfin_item_id>>

----------------------------------------------------------------------------
(* The pass's writes to the storage *)

\* the commit of line 39 going through
Committed == pc = "commit" /\ pc' = "finally"

\* C34: a step of the pass changes the storage only when it is the commit of
\* line 39 going through; that step stores every value the pass has assigned
\* to a row of its session (a value that differs from the one loaded), for
\* all rows at once; a failing load, a failing commit and a cancellation
\* store nothing
C34_SingleCommit ==
    /\ [][(TaskStep /\ db' # db) => Committed]_vars
    /\ [][Committed =>
             \A i \in DOMAIN session : \A c \in DOMAIN session[i] :
                session[i][c] # loaded[i][c] => db'[i][c] = session[i][c]]_vars
    /\ [][(pc' = "except" \/ exc' = "cancelled") => db' = db]_vars

\* C34 happens: one commit has stored what the pass found for every row
C34_Witness ==
    /\ pc = "finally"
    /\ exc = "none"
    /\ printed = {}
    /\ \A i \in DOMAIN db : db[i].is_available /\ outcome[i] = "found"

----------------------------------------------------------------------------
(* What a pass holds open *)

\* no call of sync_jellyfin_status is running
NoPass == pc \in {"tick", "returned", "sleep", "stopped"}

----------------------------------------------------------------------------
(* get_library_items request by request: the loop of lines 85-102, one     *)
(* iteration a step.  Every request ends (the client has a timeout,        *)
(* jellyfin_client.py:21), so an iteration that can be taken is taken      *)

\* line 99 without its second test: only the count ends the loop
PageBreakOnTotal(total_fetched, total_count, len_items) == total_fetched >= total_count

\* line 99
PageBreak(total_fetched, total_count, len_items) ==
    total_fetched >= total_count \/ len_items = 0

\* the answer to a request: the items from StartIndex on, Limit of them at
\* most and no more than the server puts in a page
PageOf(server, start_index) ==
    SubSeq(server.items, start_index + 1,
           Min(start_index + Min(PageLimit, server.page), Len(server.items)))

\* no call of the model makes more requests than this; the guard of PageStep
\* keeps a loop that does not end within the model
MaxRequests == MaxPages + 3

\* the calls: the server reports the size of its library as the total, or
\* one more, on every request
PagesCalls ==
    {[op |-> "pages", size |-> n, page |-> p, fails |-> f, total |-> n + over,
      start_index |-> 0, all_items |-> <<>>, total_fetched |-> 0,
      requests |-> 0, done |-> FALSE] :
        n \in LibrarySizes, p \in PageSizes, f \in 0..(MaxPages + 1), over \in 0..1}

PagesServer(c) ==
    [up |-> TRUE, users |-> Users, items |-> [k \in 1..c.size |-> k],
     total |-> c.total, page |-> c.page, fails |-> c.fails,
     fresh |-> EmptyMap, episodes |-> EmptyMap]

InitPages ==
    /\ Parked
    /\ call \in PagesCalls

\* lines 86-102: one request; when it raises, the except of line 106 ends the
\* call with what was fetched before
PageStep ==
    /\ call.op = "pages"
    /\ ~call.done
    /\ call.requests < MaxRequests
    /\ LET server == PagesServer(call)
           page_items == PageOf(server, call.start_index)
           total_fetched == call.total_fetched + Len(page_items)
           break == PageBreak(total_fetched, server.total, Len(page_items))
       IN  call' = IF server.fails = call.requests + 1
                   THEN [call EXCEPT !.requests = @ + 1, !.done = TRUE]
                   ELSE [call EXCEPT !.requests = @ + 1,
                                     !.all_items = @ \o page_items,
                                     !.total_fetched = total_fetched,
                                     !.start_index = IF break THEN @ ELSE @ + PageLimit,
                                     !.done = break]
    /\ UNCHANGED taskVars

NextPages == PageStep

SpecPages == InitPages /\ [][NextPages]_vars /\ WF_vars(NextPages)

\* C36: whatever the size of the library, the size of the server's pages and
\* the total it reports, the loop ends; it makes no more requests than the
\* library has full pages, plus two; and a request ends it exactly when it
\* raises, when the count of items fetched has reached the total, or when its
\* page is empty
C36_PaginationTerminates ==
    /\ <>(call.done)
    /\ [](call.requests <= call.size \div PageLimit + 2)
    /\ [][call'.done <=>
             \/ call.fails = call'.requests
             \/ call'.total_fetched >= call.total
             \/ call'.all_items = call.all_items]_vars

\* C36 happens: a call has ended on an empty page, after as many requests as
\* the library and the total allow
C36_Witness ==
    /\ call.done
    /\ call.fails = 0
    /\ call.requests = MaxPages + 2
    /\ call.total_fetched < call.total

----------------------------------------------------------------------------
(* The queue: add_to_queue, remove_from_queue and remove_from_watchlist on *)
(* a watchlist of MaxQueue rows, none of them queued at first.  No handler *)
(* of the three has an await, so the requests run one after the other      *)

MaxQueue == 4

QueueIds == 1..MaxQueue

\* remove_from_watchlist, main.py:820-825 (the item exists)
DeleteUpdate(table, i) == [j \in DOMAIN table \ {i} |-> table[j]]

RemoveFromWatchlist(i) ==
    /\ pc \in EnvPoints
    /\ i \in DOMAIN db
    /\ db' = DeleteUpdate(db, i)
    /\ UNCHANGED <<remote, pc, items, idx, session, loaded, jellyfin_item,
                   user_id, exc, ret, printed, outcome, twice, call, held, elsewhere>>

InitQueue ==
    /\ db = [i \in QueueIds |-> NewRow(i)]
    /\ remote = "none"
    /\ pc = "sleep"
    /\ items = <<>>
    /\ idx = 0
    /\ session = NoSession
    /\ loaded = NoSession
    /\ jellyfin_item = None
    /\ user_id = None
    /\ exc = "none"
    /\ ret = Absent
    /\ printed = {}
    /\ outcome = NoOutcome
    /\ held = {}
    /\ twice = NoTwice
    /\ call = NoCall
    /\ adds = NoAdds
    /\ backfill = NoBackfill
    /\ host = "serving"

NextQueue ==
    \/ \E i \in QueueIds : AddToQueue(i)
    \/ \E i \in QueueIds : RemoveFromQueue(i)
    \/ \E i \in QueueIds : RemoveFromWatchlist(i)

SpecQueue == InitQueue /\ [][NextQueue]_vars

\* the queued rows and their orders
Queued == {i \in DOMAIN db : db[i].queue_order # None}
Orders == {db[i].queue_order.n : i \in Queued}

\* C37: as long as no row has been deleted, the orders of the n queued rows
\* are 1..n, each once; adding a queued row changes nothing; removing a
\* queued row takes its order away and lowers by one the orders above it, and
\* no other
C37_QueueContiguous ==
    /\ [](DOMAIN db = QueueIds =>
             /\ Orders = 1..Cardinality(Queued)
             /\ \A i, j \in Queued : db[i].queue_order = db[j].queue_order => i = j)
    /\ [][\A i \in QueueIds :
             (AddToQueue(i) /\ i \in Queued) => db' = db]_vars
    /\ [][\A i \in QueueIds :
             (RemoveFromQueue(i) /\ i \in Queued) =>
                /\ db'[i] = [db[i] EXCEPT !.queue_order = None]
                /\ \A j \in DOMAIN db \ {i} :
                      db'[j] = IF j \in Queued /\ db[j].queue_order.n > db[i].queue_order.n
                               THEN [db[j] EXCEPT !.queue_order = JI(db[j].queue_order.n - 1)]
                               ELSE db[j]]_vars

\* C37 happens: every row but the first is queued, the last row ahead of all
C37_Witness ==
    /\ DOMAIN db = QueueIds
    /\ Queued = QueueIds \ {1}
    /\ db[MaxQueue].queue_order = JI(1)

\* C38: with rows deleted in between, no two queued rows have the same order
C38_QueueDistinct ==
    \A i, j \in Queued : db[i].queue_order = db[j].queue_order => i = j

\* C38 happens: a queued row was deleted and a row was queued since: the
\* orders have a gap
C38_Witness ==
    /\ 1 \notin DOMAIN db
    /\ Cardinality(Queued) = 2
    /\ Orders = {2, 3}

----------------------------------------------------------------------------
(* The requests with their credentials (auth.py).  The application checks  *)
(* a route's dependencies before it calls the handler; call holds the last *)
(* request and the status of its response                                  *)

\* A bearer token as jwt.decode sees it: signed with SECRET_KEY or not,
\* expired or not, and the "authenticated" claim of its payload.  The first
\* is what create_access_token issues (auth.py:16-23)
Tokens ==
    {[signed |-> TRUE, expired |-> FALSE, authenticated |-> JB(TRUE)],
     [signed |-> FALSE, expired |-> FALSE, authenticated |-> JB(TRUE)],
     [signed |-> TRUE, expired |-> TRUE, authenticated |-> JB(TRUE)],
     [signed |-> TRUE, expired |-> FALSE, authenticated |-> JB(FALSE)],
     [signed |-> TRUE, expired |-> FALSE, authenticated |-> Absent]}

\* what HTTPBearer(auto_error=False) hands over (auth.py:14): None when the
\* request has no bearer Authorization header
Credentials == {None} \cup Tokens

HTTPException(status_code) == [t |-> "raise", status |-> status_code]

\* verify_token, auth.py:25-31: jwt.decode raises JWTError for a wrong
\* signature and for an expired token
VerifyToken(token) ==
    IF ~token.signed \/ token.expired THEN JB(FALSE)
    ELSE IF token.authenticated = Absent THEN JB(FALSE) ELSE token.authenticated

\* get_current_user, auth.py:41-60
GetCurrentUser(credentials) ==
    IF credentials = None THEN HTTPException(401)
    ELSE IF ~Truthy(VerifyToken(credentials)) THEN HTTPException(401)
    ELSE JB(TRUE)

\* the handlers whose signature has Depends(get_current_user): main.py:495,
\* 613, 816, 833, 884, 914; add_to_queue (main.py:859-862) has Depends(get_db)
\* only
Protected ==
    {"add_to_watchlist", "backfill_genres", "remove_from_watchlist",
     "toggle_watched_status", "remove_from_queue", "reorder_queue"}

\* WatchlistItemResponse.from_orm_item (main.py:280-300) reads item.genres,
\* item.runtime, item.rating and item.language: the status of a response
\* built from a row
ItemResponse ==
    IF {"genres", "runtime", "rating", "language"} \subseteq Columns THEN 200 ELSE 500

\* What a handler, once called, answers and leaves in the storage.  For
\* add_to_watchlist (main.py:501-608) row is what its lookups made of the new
\* item; backfill_genres ends at its query (main.py:623-628, 685-690)
Handler(op, table, i, item_orders, row) ==
    CASE op = "add_to_watchlist" ->
            IF Existing(table, i) THEN [status |-> 400, db |-> table]
            ELSE LET made == CreateItem(table, CreateKeywords, row)
                 IN  IF IsRaise(made) THEN [status |-> 500, db |-> table]
                     ELSE [status |-> ItemResponse, db |-> made]
      [] op = "backfill_genres" ->
            [status |-> IF BackfillLoads THEN 200 ELSE 500, db |-> table]
      [] op = "remove_from_watchlist" ->
            IF i \notin DOMAIN table THEN [status |-> 404, db |-> table]
            ELSE [status |-> 200, db |-> DeleteUpdate(table, i)]
      [] op = "toggle_watched_status" ->
            IF i \notin DOMAIN table THEN [status |-> 404, db |-> table]
            ELSE [status |-> ItemResponse,
                  db |-> [table EXCEPT ![i] = ToggleUpdate(table[i])]]
      [] op = "add_to_queue" ->
            IF i \notin DOMAIN table THEN [status |-> 404, db |-> table]
            ELSE [status |-> ItemResponse, db |-> AddToQueueUpdate(table, i)]
      [] op = "remove_from_queue" ->
            IF i \notin DOMAIN table THEN [status |-> 404, db |-> table]
            ELSE [status |-> ItemResponse, db |-> RemoveFromQueueUpdate(table, i)]
      [] op = "reorder_queue" ->
            [status |-> 200, db |-> ReorderUpdate(table, item_orders)]

\* one request: the dependencies, then the handler
Serve(op, credentials, i, item_orders, row) ==
    /\ pc \in EnvPoints
    /\ LET denied == op \in Protected /\ IsRaise(GetCurrentUser(credentials))
           done == Handler(op, db, i, item_orders, row)
       IN  /\ call' = [op |-> op, credentials |-> credentials,
                       status |-> IF denied THEN 401 ELSE done.status]
           /\ db' = IF denied THEN db ELSE done.db
    /\ UNCHANGED <<remote, pc, items, idx, session, loaded, jellyfin_item,
                   user_id, exc, ret, printed, outcome, twice, held, elsewhere>>

NextAuth ==
    \E credentials \in Credentials :
        \/ \E i \in ItemIds : \E row \in PassedRows(i) :
              Serve("add_to_watchlist", credentials, i, <<>>, row)
        \/ Serve("backfill_genres", credentials, 0, <<>>, None)
        \/ \E i \in ItemIds : Serve("remove_from_watchlist", credentials, i, <<>>, None)
        \/ \E i \in ItemIds : Serve("toggle_watched_status", credentials, i, <<>>, None)
        \/ \E i \in ItemIds : Serve("add_to_queue", credentials, i, <<>>, None)
        \/ \E i \in ItemIds : Serve("remove_from_queue", credentials, i, <<>>, None)
        \/ \E item_orders \in ItemOrders :
              Serve("reorder_queue", credentials, 0, item_orders, None)

SpecAuth == InitRequests /\ [][NextAuth]_vars

\* the requests that write the watchlist or the queue
Mutating == Protected \cup {"add_to_queue"}

\* a token create_access_token has issued and that has not expired
ValidToken(credentials) ==
    /\ credentials # None
    /\ credentials.signed
    /\ ~credentials.expired
    /\ credentials.authenticated = JB(TRUE)

\* C39: a request for a writing handler that carries no valid token is
\* answered 401 and leaves the storage as it is
C39_WritesNeedToken ==
    [][(call'.op \in Mutating /\ ~ValidToken(call'.credentials)) =>
          (call'.status = 401 /\ db' = db)]_vars

====
